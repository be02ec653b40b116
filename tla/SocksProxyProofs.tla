--------------------------- MODULE SocksProxyProofs ---------------------------
(***************************************************************************)
(* Proofs about SocksProxy for any clients and plans, any size of the      *)
(* table that holds them, and any amount of data.                          *)
(***************************************************************************)
EXTENDS SocksProxy, FiniteSetTheorems, SequenceTheorems, TLAPS

(* Only a connection that forwards has a buffer that is closed; one that is *)
(* parsed again after it was dropped may take it along.                     *)
Sound == {e \in Connection : e.status \notin {"RESOLVING", "FORWARDING"} => e.bufC \in Seq(Piece)}
Tables == [1..MAX_CONNECTIONS -> Sound]

(* The place the handlers look at.                                          *)
Scans ==
  /\ pc = "parse" => i \in Live
  /\ pc = "parse after drop" => i <= MAX_CONNECTIONS /\ count >= 0

(* The connections and those that wait belong to different clients that     *)
(* have come, so that the table has room for them.                          *)
Come == {c \in Clients : end[c] # "away"}
Room == count + Len(backlog) <= Cardinality(Come)

Types == TypeOK /\ table \in Tables /\ Scans /\ Room

(* A connection that forwards has a server.                                 *)
Serving == \A k \in 1..MAX_CONNECTIONS : table[k].status = "FORWARDING" => table[k].server \in DOMAIN servers

-----------------------------------------------------------------------------
LEMMA Bounds ==
  /\ MAX_CONNECTIONS \in Nat /\ MaxData \in Nat /\ MaxServers \in Nat
  /\ IsFiniteSet(Clients) /\ Cardinality(Clients) \in Nat /\ Cardinality(Clients) <= MAX_CONNECTIONS
  /\ IsFiniteSet(Come) /\ Cardinality(Come) \in Nat /\ Cardinality(Come) <= MAX_CONNECTIONS
<1>1. Cardinality(Clients) \in Nat
  BY ProxyAssumption, FS_CardinalityType DEF ProxyAssumption
<1>2. IsFiniteSet(Come) /\ Cardinality(Come) <= Cardinality(Clients)
  BY ProxyAssumption, FS_Subset DEF ProxyAssumption, Come
<1>3. Cardinality(Come) \in Nat
  BY <1>2, FS_CardinalityType
<1>. QED
  BY <1>1, <1>2, <1>3, ProxyAssumption DEF ProxyAssumption

LEMMA PlanIsTyped ==
  ASSUME PeersTypes, NEW c \in Clients
  PROVE  /\ plan[c].up \in 0..MaxData /\ plan[c].down \in 0..MaxData
         /\ plan[c].slow \in BOOLEAN /\ plan[c].resets \in BOOLEAN
BY ProxyAssumption DEF ProxyAssumption, PeersTypes

LEMMA ReplyIsTyped ==
  ASSUME NEW kind \in {"denied", "welcome", "granted", "refused"}
  PROVE  <<Reply(kind)>> \in Seq(Message) /\ <<Reply(kind), Reply(kind)>> \in Seq(Message)
<1>1. Reply(kind) \in Message
  BY Bounds DEF Reply, Message
<1>. QED
  BY <1>1

LEMMA EntryIsSound ==
  ASSUME NEW c \in Clients
  PROVE  Entry(c) \in Sound
<1>1. <<>> \in Seq(Piece) /\ <<>> \in Seq(1..MaxData)
  BY EmptySeq
<1>2. 0 \in NoServer..MaxServers /\ 0 \in Nat
  BY Bounds DEF NoServer
<1>3. Entry(c) \in Connection
  BY <1>1, <1>2 DEF Entry, Connection, NoServer
<1>4. Entry(c).bufC \in Seq(Piece)
  BY <1>1 DEF Entry
<1>. QED
  BY <1>3, <1>4 DEF Sound

LEMMA InitTypes == Init => Types
<1>. SUFFICES ASSUME Init PROVE Types
  OBVIOUS
<1>1. table \in Tables
  <2>1. (CHOOSE c \in Clients : TRUE) \in Clients
    BY ProxyAssumption DEF ProxyAssumption
  <2>. QED
    BY <2>1, EntryIsSound DEF Init, Tables
<1>2. table \in [1..MAX_CONNECTIONS -> Connection]
  BY <1>1 DEF Tables, Sound
<1>3. TypeOK
  <2>. USE DEF Init
  <2>1. KernelTypes
    BY EmptySeq DEF KernelTypes
  <2>2. FarTypes
    BY EmptySeq, Bounds DEF FarTypes
  <2>3. PeersTypes
    BY EmptySeq, Bounds DEF PeersTypes, Handshake
  <2>4. ConnsTypes
    <3>1. 0 \in (-1)..MAX_CONNECTIONS
      BY Bounds
    <3>2. stray \in BOOLEAN
      BY Zenon
    <3>3. count \in (-1)..MAX_CONNECTIONS /\ count >= 0
      BY <3>1
    <3>. QED
      BY <1>2, <3>2, <3>3, Zenon DEF ConnsTypes
  <2>5. ProxyTypes
    BY Bounds DEF ProxyTypes, Events
  <2>. QED
    BY <2>1, <2>2, <2>3, <2>4, <2>5 DEF TypeOK
<1>4. Come = {} /\ Cardinality(Come) = 0
  BY FS_EmptySet DEF Init, Come
<1>. QED
  BY <1>1, <1>3, <1>4 DEF Types, Scans, Room, Init

(* A place that is freed is given to the last connection.                   *)
LEMMA DroppedIsTyped ==
  ASSUME NEW tab \in Tables, count \in Int
  PROVE  Dropped(tab) \in Tables
BY DEF Dropped, Tables

LEMMA AnswersAreTyped ==
  ASSUME KernelTypes, NEW c \in Clients, NEW replies \in Seq(Message), Answers(c, replies)
  PROVE  wq' \in [Clients -> Seq(Message)]
<1>1. wq[c] \in Seq(Message) /\ wq[c] \o replies \in Seq(Message)
  BY ConcatProperties DEF KernelTypes
<1>. QED
  BY <1>1 DEF KernelTypes, Answers

(* What a step that does not touch a group of variables leaves typed.       *)
LEMMA Untouched ==
  ASSUME Types
  PROVE  /\ UNCHANGED proxy => ProxyTypes'
         /\ UNCHANGED <<conns, stray>> => ConnsTypes' /\ table' \in Tables
         /\ UNCHANGED kernel => KernelTypes'
         /\ UNCHANGED far => FarTypes'
         /\ UNCHANGED peers => PeersTypes'
         /\ UNCHANGED <<pc, i, count>> => Scans'
         /\ UNCHANGED <<count, backlog, end>> => Room'
<1>. USE DEF Types, TypeOK
<1>1. UNCHANGED proxy => ProxyTypes'
  BY DEF proxy, ProxyTypes
<1>2. UNCHANGED <<conns, stray>> => ConnsTypes' /\ table' \in Tables
  BY DEF conns, ConnsTypes
<1>3. UNCHANGED kernel => KernelTypes'
  BY DEF kernel, KernelTypes
<1>4. UNCHANGED far => FarTypes'
  BY DEF far, FarTypes
<1>5. UNCHANGED peers => PeersTypes'
  BY DEF peers, PeersTypes
<1>6. UNCHANGED <<pc, i, count>> => Scans'
  BY DEF Scans, Live
<1>7. UNCHANGED <<count, backlog, end>> => Room'
  BY DEF Room, Come
<1>. QED
  BY <1>1, <1>2, <1>3, <1>4, <1>5, <1>6, <1>7

-----------------------------------------------------------------------------
(* The environment                                                          *)

LEMMA ClientsAreTyped ==
  ASSUME Types, NEW c \in Clients, ClientMoves(c) \/ Reads(c)
  PROVE  Types'
<1>1. KernelTypes /\ PeersTypes /\ ConnsTypes /\ Room
  BY DEF Types, TypeOK
<1>2. UNCHANGED <<proxy, conns, stray, far, plan>>
  BY DEF ClientMoves, Connects, Sends, Finishes, Resets, Reads
<1>3. UNCHANGED <<pc, i, count>>
  BY <1>2 DEF proxy, conns
<1>4. ProxyTypes' /\ ConnsTypes' /\ FarTypes' /\ table' \in Tables /\ Scans'
  BY <1>2, <1>3, Untouched
<1>5. CASE Connects(c)
  <2>1. KernelTypes' /\ PeersTypes'
    BY <1>1, <1>5, AppendProperties DEF Connects, KernelTypes, PeersTypes
  <2>2. Come' = Come \cup {c} /\ c \notin Come
    BY <1>1, <1>5 DEF Connects, Come, PeersTypes
  <2>3. Cardinality(Come)' = Cardinality(Come) + 1
    BY <2>2, Bounds, FS_AddElement
  <2>4. Len(backlog') = Len(backlog) + 1 /\ Len(backlog) \in Nat
    BY <1>1, <1>5, AppendProperties DEF Connects, KernelTypes
  <2>5. count' = count /\ count \in Int
    BY <1>1, <1>3 DEF ConnsTypes
  <2>6. Room'
    BY <1>1, <2>3, <2>4, <2>5, Bounds DEF Room
  <2>. QED
    BY <1>4, <2>1, <2>6 DEF Types, TypeOK
<1>6. CASE Sends(c)
  <2>1. Goal(c) \in 0..(Handshake + MaxData) /\ Handshake + MaxData \in Nat
    BY <1>1, PlanIsTyped, Bounds DEF Goal, Handshake
  <2>2. sent[c] \in 0..(Handshake + MaxData) /\ inq[c] \in Seq(Piece)
    BY <1>1 DEF PeersTypes, KernelTypes
  <2>3. PICK new \in 0..(Handshake + MaxData) : sent[c] < new /\ sent' = [sent EXCEPT ![c] = new]
    <3>1. sent[c] < Goal(c) /\ sent[c] + 1 \in 0..(Handshake + MaxData)
      <4>1. PICK top \in Nat, old \in Nat, goal \in Nat :
              top = Handshake + MaxData /\ old = sent[c] /\ goal = Goal(c) /\ goal <= top
        BY <2>1, <2>2
      <4>2. old < goal
        BY <1>6, <4>1 DEF Sends
      <4>3. old + 1 \in 0..top
        BY <4>1, <4>2
      <4>. QED
        BY <4>1, <4>2, <4>3
    <3>2. sent' = [sent EXCEPT ![c] = sent[c] + 1] \/ sent' = [sent EXCEPT ![c] = Goal(c)]
      BY <1>6 DEF Sends
    <3>3. sent[c] < sent[c] + 1
      BY <2>2, Bounds
    <3>. QED
      BY <2>1, <3>1, <3>2, <3>3
  <2>4. sent'[c] = new
    BY <1>1, <2>3 DEF PeersTypes
  <2>5. [x \in 1..(new - sent[c]) |-> sent[c] + x] \in Seq(Piece)
    <3>1. \A x \in 1..(new - sent[c]) : sent[c] + x \in Piece
      BY <2>1, <2>2 DEF Piece
    <3>2. new - sent[c] \in Nat
      BY <2>1, <2>2, <2>3
    <3>. QED
      BY <3>1, <3>2
  <2>6. inq[c] \o [x \in 1..(new - sent[c]) |-> sent[c] + x] \in Seq(Piece)
    BY <2>2, <2>5, ConcatProperties
  <2>7. inq' = [inq EXCEPT ![c] = inq[c] \o [x \in 1..(new - sent[c]) |-> sent[c] + x]]
    BY <1>6, <2>4 DEF Sends
  <2>8. KernelTypes'
    BY <1>1, <1>6, <2>6, <2>7 DEF Sends, KernelTypes
  <2>9. PeersTypes'
    BY <1>1, <1>6, <2>3 DEF Sends, PeersTypes
  <2>10. Room'
    BY <1>3, <1>6, Untouched DEF Sends
  <2>. QED
    BY <1>4, <2>8, <2>9, <2>10 DEF Types, TypeOK
<1>7. CASE Finishes(c)
  <2>1. KernelTypes'
    BY <1>7, Untouched DEF Finishes
  <2>2. PeersTypes'
    BY <1>1, <1>7 DEF Finishes, PeersTypes
  <2>3. Come' = Come /\ backlog' = backlog
    BY <1>1, <1>7 DEF Finishes, Come, PeersTypes, kernel
  <2>4. Room'
    BY <1>1, <1>3, <2>3 DEF Room
  <2>. QED
    BY <1>4, <2>1, <2>2, <2>4 DEF Types, TypeOK
<1>8. CASE Resets(c)
  <2>1. KernelTypes'
    BY <1>1, <1>8, EmptySeq DEF Resets, KernelTypes
  <2>2. PeersTypes'
    BY <1>1, <1>8 DEF Resets, PeersTypes
  <2>3. Come' = Come /\ backlog' = backlog
    BY <1>1, <1>8 DEF Resets, Come, PeersTypes
  <2>4. Room'
    BY <1>1, <1>3, <2>3 DEF Room
  <2>. QED
    BY <1>4, <2>1, <2>2, <2>4 DEF Types, TypeOK
<1>9. CASE Reads(c)
  <2>1. wq[c] \in Seq(Message) /\ got[c] \in Seq(Message) /\ wq[c] # <<>>
    BY <1>1, <1>9 DEF KernelTypes, PeersTypes, Reads
  <2>2. Tail(wq[c]) \in Seq(Message) /\ Append(got[c], Head(wq[c])) \in Seq(Message)
    BY <2>1, HeadTailProperties, AppendProperties
  <2>3. KernelTypes'
    BY <1>1, <1>9, <2>2 DEF Reads, KernelTypes
  <2>4. PeersTypes'
    BY <1>1, <1>9, <2>2 DEF Reads, PeersTypes
  <2>5. Room'
    BY <1>3, <1>9, Untouched DEF Reads
  <2>. QED
    BY <1>4, <2>3, <2>4, <2>5 DEF Types, TypeOK
<1>. QED
  BY <1>5, <1>6, <1>7, <1>8, <1>9 DEF ClientMoves

LEMMA ServersAreTyped ==
  ASSUME Types, NEW s \in DOMAIN servers, ServerSends(s) \/ ServerFinishes(s) \/ ServerReads(s)
  PROVE  Types'
<1>. USE DEF ServerMoves
<1>1. FarTypes /\ PeersTypes /\ s \in 1..Len(servers)
  BY DEF Types, TypeOK, FarTypes
<1>2. UNCHANGED <<proxy, conns, kernel, resolvers, peers, stray>>
  BY DEF ServerSends, ServerFinishes, ServerReads
<1>3. UNCHANGED <<pc, i, count, backlog, end>>
  BY <1>2 DEF proxy, conns, kernel, peers
<1>4. /\ ProxyTypes' /\ ConnsTypes' /\ KernelTypes' /\ PeersTypes'
      /\ table' \in Tables /\ Scans' /\ Room'
  BY <1>2, <1>3, Untouched
<1>5. servers[s] \in ServerSocket
  BY <1>1 DEF FarTypes
<1>6. PICK new \in ServerSocket : servers' = [servers EXCEPT ![s] = new]
  <2>1. CASE ServerSends(s)
    <3>1. servers[s].sent + 1 \in 1..MaxData
      <4>1. servers[s].client \in Clients /\ servers[s].sent \in 0..MaxData
        BY <1>5 DEF ServerSocket
      <4>2. plan[servers[s].client].down \in 0..MaxData
        BY <1>1, <4>1, PlanIsTyped
      <4>3. servers[s].sent < plan[servers[s].client].down
        BY <2>1 DEF ServerSends
      <4>. QED
        BY <4>1, <4>2, <4>3, Bounds
    <3>2. Append(servers[s].inq, servers[s].sent + 1) \in Seq(1..MaxData)
      BY <1>5, <3>1, AppendProperties DEF ServerSocket
    <3>3. [servers[s] EXCEPT !.sent = @ + 1, !.inq = Append(@, servers[s].sent + 1)] \in ServerSocket
      <4>1. servers[s].sent + 1 \in 0..MaxData
        BY <3>1, Bounds
      <4>. QED
        BY <1>5, <3>2, <4>1 DEF ServerSocket
    <3>. QED
      BY <2>1, <3>3 DEF ServerSends
  <2>2. CASE ServerFinishes(s)
    <3>1. [servers[s] EXCEPT !.peer = "fin"] \in ServerSocket
      BY <1>5 DEF ServerSocket
    <3>. QED
      BY <2>2, <3>1 DEF ServerFinishes
  <2>3. CASE ServerReads(s)
    <3>1. servers[s].got \o servers[s].wq \in Seq(Piece) /\ <<>> \in Seq(Piece)
      BY <1>5, ConcatProperties, EmptySeq DEF ServerSocket
    <3>2. [servers[s] EXCEPT !.got = @ \o servers[s].wq, !.wq = <<>>] \in ServerSocket
      BY <1>5, <3>1 DEF ServerSocket
    <3>. QED
      BY <2>3, <3>2 DEF ServerReads
  <2>. QED
    BY <2>1, <2>2, <2>3
<1>7. servers' \in Seq(ServerSocket) /\ Len(servers') = Len(servers)
  BY <1>1, <1>6, ExceptSeq DEF FarTypes
<1>8. FarTypes'
  BY <1>1, <1>2, <1>7 DEF FarTypes
<1>. QED
  BY <1>4, <1>8 DEF Types, TypeOK

LEMMA TimeIsTyped ==
  ASSUME Types, NEW r \in DOMAIN resolvers, TimePasses(r)
  PROVE  Types'
<1>1. UNCHANGED <<proxy, conns, kernel, servers, peers, stray>>
  BY DEF TimePasses
<1>2. UNCHANGED <<pc, i, count, backlog, end>>
  BY <1>1 DEF proxy, conns, kernel, peers
<1>3. /\ ProxyTypes' /\ ConnsTypes' /\ KernelTypes' /\ PeersTypes'
      /\ table' \in Tables /\ Scans' /\ Room'
  BY <1>1, <1>2, Untouched
<1>4. resolvers' \in Seq({"running", "late", "closed", "leaked"})
  <2>1. resolvers \in Seq({"running", "late", "closed", "leaked"}) /\ r \in 1..Len(resolvers)
    BY DEF Types, TypeOK, FarTypes
  <2>. QED
    BY <2>1, ExceptSeq DEF TimePasses
<1>5. FarTypes'
  BY <1>1, <1>4 DEF Types, TypeOK, FarTypes
<1>. QED
  BY <1>3, <1>5 DEF Types, TypeOK

-----------------------------------------------------------------------------
(* The handlers                                                             *)

LEMMA EntryIsTyped ==
  ASSUME table \in Tables, i \in 1..MAX_CONNECTIONS
  PROVE  table[i] \in Sound /\ Client \in Clients
<1>1. table[i] \in Sound
  BY DEF Tables
<1>2. table[i] \in Connection
  BY <1>1 DEF Sound
<1>. QED
  BY <1>1, <1>2 DEF Connection, Client

(* The place that is looked at, when there is one.                          *)
LEMMA PlaceIsTyped ==
  ASSUME Types, (pc = "scan" /\ i \in Live) \/ Parses
  PROVE  /\ i \in 1..MAX_CONNECTIONS /\ i + 1 \in 1..(MAX_CONNECTIONS + 1)
         /\ table[i] \in Sound /\ Client \in Clients
         /\ count \in Int /\ count - 1 \in (-1)..MAX_CONNECTIONS
         /\ pc # "parse after drop" => i \in Live /\ count - 1 \in 0..MAX_CONNECTIONS
<1>1. /\ i \in 1..(MAX_CONNECTIONS + 1) /\ count \in (-1)..MAX_CONNECTIONS /\ table \in Tables
      /\ MAX_CONNECTIONS \in Nat
  BY Bounds DEF Types, TypeOK, ProxyTypes, ConnsTypes
<1>2. CASE pc # "parse after drop"
  <2>1. i \in 1..count
    BY <1>2 DEF Types, Scans, Parses, Live
  <2>2. i \in 1..MAX_CONNECTIONS /\ count - 1 \in 0..MAX_CONNECTIONS
    BY <1>1, <2>1
  <2>3. i + 1 \in 1..(MAX_CONNECTIONS + 1) /\ count \in Int /\ count - 1 \in (-1)..MAX_CONNECTIONS
    BY <1>1, <2>2
  <2>4. table[i] \in Sound /\ Client \in Clients
    BY <1>1, <2>2, EntryIsTyped
  <2>. QED
    BY <2>1, <2>2, <2>3, <2>4 DEF Live
<1>3. CASE pc = "parse after drop"
  <2>1. i <= MAX_CONNECTIONS /\ count >= 0
    BY <1>3 DEF Types, Scans
  <2>2. i \in 1..MAX_CONNECTIONS
    BY <1>1, <2>1
  <2>3. count - 1 \in (-1)..MAX_CONNECTIONS
    BY <1>1, <2>1
  <2>4. i + 1 \in 1..(MAX_CONNECTIONS + 1) /\ count \in Int
    BY <1>1, <2>2
  <2>5. table[i] \in Sound /\ Client \in Clients
    BY <1>1, <2>2, EntryIsTyped
  <2>. QED
    BY <1>3, <2>2, <2>3, <2>4, <2>5
<1>. QED
  BY <1>2, <1>3

(* A handler that has gone on to the next place.                            *)
LEMMA NextEntryIsTyped ==
  ASSUME Types, (pc = "scan" /\ i \in Live) \/ Parses, NextEntry
  PROVE  ProxyTypes' /\ Scans'
BY PlaceIsTyped DEF NextEntry, Types, TypeOK, ProxyTypes, Scans

(* What becomes of the history variable stray.                              *)
Notes == stray' \in BOOLEAN /\ (stray => stray') /\ (pc = "parse after drop" => stray')

LEMMA NotesOf ==
  ASSUME Types, Strays \/ (UNCHANGED stray /\ pc # "parse after drop")
  PROVE  Notes
BY DEF Types, TypeOK, ConnsTypes, Strays, Notes

(* A handler keeps the connection, in another state, or drops it.           *)
LEMMA KeptIsTyped ==
  ASSUME Types, (pc = "scan" /\ i \in Live) \/ Parses, Notes, NEW e \in Sound, Sets(e)
  PROVE  ConnsTypes' /\ table' \in Tables /\ UNCHANGED count
<1>1. table' \in Tables
  BY PlaceIsTyped DEF Sets, Types, Tables
<1>2. table' \in [1..MAX_CONNECTIONS -> Connection]
  BY <1>1 DEF Tables, Sound
<1>3. UNCHANGED count
  BY DEF Sets
<1>. QED
  BY <1>1, <1>2, <1>3, Zenon DEF Types, TypeOK, ConnsTypes, Notes

LEMMA DropIsTyped ==
  ASSUME Types, (pc = "scan" /\ i \in Live) \/ Parses, Notes,
         NEW tab \in Tables, Drop(tab)
  PROVE  /\ ConnsTypes' /\ table' \in Tables /\ count' = count - 1
         /\ sock' \in [Clients -> {"none", "open", "closed"}]
<1>1. table' \in Tables
  BY PlaceIsTyped, DroppedIsTyped DEF Drop
<1>2. table' \in [1..MAX_CONNECTIONS -> Connection]
  BY <1>1 DEF Tables, Sound
<1>3. count' = count - 1 /\ count' \in (-1)..MAX_CONNECTIONS /\ (pc # "parse after drop" => count' >= 0)
  <2>1. count' = count - 1
    BY DEF Drop
  <2>2. count - 1 \in (-1)..MAX_CONNECTIONS
    BY PlaceIsTyped
  <2>3. ASSUME pc # "parse after drop" PROVE count - 1 >= 0
    <3>1. count - 1 \in 0..MAX_CONNECTIONS
      BY <2>3, PlaceIsTyped
    <3>2. \A d \in 0..MAX_CONNECTIONS : d >= 0
      BY Bounds
    <3>. QED
      BY <3>1, <3>2
  <2>. QED
    BY <2>1, <2>2, <2>3, Zenon
<1>4. sock' \in [Clients -> {"none", "open", "closed"}]
  BY DEF Drop, Types, TypeOK, KernelTypes
<1>. QED
  BY <1>1, <1>2, <1>3, <1>4, Zenon DEF ConnsTypes, Notes

LEMMA FewerFit ==
  ASSUME Types, count' \in {count, count - 1}, UNCHANGED <<backlog, end>>
  PROVE  Room'
<1>1. Come' = Come /\ count \in Int /\ Len(backlog) \in Nat /\ Room
  BY DEF Come, Types, TypeOK, ConnsTypes, KernelTypes
<1>. QED
  BY <1>1, Bounds DEF Room

(* A handler has its type when each of its effects has.                     *)
LEMMA HandlerIsTyped ==
  ASSUME Types, (pc = "scan" /\ i \in Live) \/ Parses, NextEntry, UNCHANGED <<backlog, peers>>,
         ConnsTypes', table' \in Tables, count' \in {count, count - 1}, FarTypes',
         sock' \in [Clients -> {"none", "open", "closed"}], inq' \in [Clients -> Seq(Piece)],
         wq' \in [Clients -> Seq(Message)]
  PROVE  Types'
<1>1. ProxyTypes' /\ Scans' /\ PeersTypes'
  BY NextEntryIsTyped, Untouched
<1>2. KernelTypes'
  BY DEF Types, TypeOK, KernelTypes
<1>3. Room'
  BY FewerFit DEF peers
<1>. QED
  BY <1>1, <1>2, <1>3 DEF Types, TypeOK

LEMMA SkipsAreTyped ==
  ASSUME Types, (pc = "scan" /\ i \in Live) \/ Parses, Skips
  PROVE  Types'
<1>1. NextEntry /\ UNCHANGED <<conns, kernel, far, peers, stray>>
  BY DEF Skips
<1>2. ConnsTypes' /\ table' \in Tables /\ FarTypes' /\ KernelTypes' /\ UNCHANGED <<count, backlog>>
  BY <1>1, Untouched DEF conns, kernel
<1>. QED
  BY <1>1, <1>2, HandlerIsTyped DEF KernelTypes

(* What is read from a client is taken from its queue.                      *)
LEMMA TakenIsTyped ==
  ASSUME Types, NEW c \in Clients, inq' = [inq EXCEPT ![c] = <<>>]
  PROVE  inq' \in [Clients -> Seq(Piece)]
BY EmptySeq DEF Types, TypeOK, KernelTypes

LEMMA GreetingIsTyped ==
  ASSUME Types, IncomingHangup \/ IncomingEnds \/ IncomingReads \/ AuthFailure \/ AuthSuccess
  PROVE  Types'
<1>. USE DEF At
<1>1. /\ pc = "scan" /\ i \in Live /\ NextEntry /\ UNCHANGED <<backlog, far, peers, stray>>
  BY DEF IncomingHangup, IncomingEnds, IncomingReads, AuthFailure, AuthSuccess
<1>2. table \in Tables /\ KernelTypes /\ Notes /\ FarTypes'
  BY <1>1, Untouched, NotesOf DEF Types, TypeOK
<1>3. Client \in Clients /\ Now \in Sound /\ count \in Int
  BY <1>1, PlaceIsTyped DEF Now
<1>4. CASE IncomingHangup \/ IncomingEnds
  <2>1. Drop(table) /\ UNCHANGED <<inq, wq>>
    BY <1>4 DEF IncomingHangup, IncomingEnds
  <2>2. /\ ConnsTypes' /\ table' \in Tables /\ count' = count - 1
        /\ sock' \in [Clients -> {"none", "open", "closed"}]
    BY <1>1, <1>2, <2>1, DropIsTyped
  <2>. QED
    BY <1>1, <1>2, <2>1, <2>2, HandlerIsTyped DEF KernelTypes
<1>5. CASE IncomingReads
  <2>1. inq' \in [Clients -> Seq(Piece)] /\ wq' = wq
    BY <1>3, <1>5, TakenIsTyped DEF IncomingReads
  <2>2. CASE plan[Client].version = 5
    <3>1. PICK status \in {"INCOMING", "AUTH_SUCCESS", "AUTH_FAILURE"} :
            Sets([Now EXCEPT !.bufC = Now.bufC \o inq[Client], !.status = status]) /\ sock' = sock
      BY <1>5, <2>2 DEF IncomingReads
    <3>2. Now.bufC \in Seq(Piece) /\ inq[Client] \in Seq(Piece)
      BY <1>2, <1>3, <1>5 DEF Sound, KernelTypes, IncomingReads, Now
    <3>3. Now.bufC \o inq[Client] \in Seq(Piece)
      BY <3>2, ConcatProperties
    <3>4. [Now EXCEPT !.bufC = Now.bufC \o inq[Client], !.status = status] \in Sound
      BY <1>3, <3>3 DEF Sound, Connection
    <3>5. ConnsTypes' /\ table' \in Tables /\ UNCHANGED count
      BY <1>1, <1>2, <3>1, <3>4, KeptIsTyped
    <3>. QED
      BY <1>1, <1>2, <2>1, <3>1, <3>5, HandlerIsTyped DEF KernelTypes
  <2>3. CASE plan[Client].version # 5
    <3>1. Drop(table)
      BY <1>5, <2>3 DEF IncomingReads
    <3>2. /\ ConnsTypes' /\ table' \in Tables /\ count' = count - 1
          /\ sock' \in [Clients -> {"none", "open", "closed"}]
      BY <1>1, <1>2, <3>1, DropIsTyped
    <3>. QED
      BY <1>1, <1>2, <2>1, <3>2, HandlerIsTyped DEF KernelTypes
  <2>. QED
    BY <2>2, <2>3
<1>6. CASE AuthFailure
  <2>1. Answers(Client, <<Reply("denied")>>) /\ Drop(table) /\ UNCHANGED inq
    BY <1>6 DEF AuthFailure
  <2>2. /\ ConnsTypes' /\ table' \in Tables /\ count' = count - 1
        /\ sock' \in [Clients -> {"none", "open", "closed"}]
    BY <1>1, <1>2, <2>1, DropIsTyped
  <2>3. wq' \in [Clients -> Seq(Message)]
    <3>1. <<Reply("denied")>> \in Seq(Message)
      BY ReplyIsTyped
    <3>. QED
      BY <1>2, <1>3, <2>1, <3>1, AnswersAreTyped
  <2>. QED
    BY <1>1, <1>2, <2>1, <2>2, <2>3, HandlerIsTyped DEF KernelTypes
<1>7. CASE AuthSuccess
  <2>1. /\ Answers(Client, <<Reply("welcome")>>) /\ UNCHANGED <<inq, sock>>
        /\ Sets([Now EXCEPT !.status = "SOCK_REQUEST", !.bufC = <<>>])
    BY <1>7 DEF AuthSuccess
  <2>2. [Now EXCEPT !.status = "SOCK_REQUEST", !.bufC = <<>>] \in Sound
    BY <1>3, EmptySeq DEF Sound, Connection
  <2>3. ConnsTypes' /\ table' \in Tables /\ UNCHANGED count
    BY <1>1, <1>2, <2>1, <2>2, KeptIsTyped
  <2>4. wq' \in [Clients -> Seq(Message)]
    <3>1. <<Reply("welcome")>> \in Seq(Message)
      BY ReplyIsTyped
    <3>. QED
      BY <1>2, <1>3, <2>1, <3>1, AnswersAreTyped
  <2>. QED
    BY <1>1, <1>2, <2>1, <2>3, <2>4, HandlerIsTyped DEF KernelTypes
<1>. QED
  BY <1>4, <1>5, <1>6, <1>7

(* A socket that is opened.                                                 *)
LEMMA ServerIsTyped ==
  ASSUME NEW e, e.client \in Clients, NEW peer \in {"open", "refused"}
  PROVE  /\ Server(e, peer) \in ServerSocket
         /\ Server(e, peer).open /\ Server(e, peer).client = e.client
<1>1. 0 \in 0..MaxData /\ <<>> \in Seq(1..MaxData) /\ <<>> \in Seq(Piece)
  BY EmptySeq, Bounds
<1>2. LastPiece(e) \in {Handshake - 1, Handshake}
  BY DEF LastPiece
<1>. QED
  BY <1>1, <1>2 DEF Server, ServerSocket

(* What follows when the address of the server is known.                    *)
LEMMA OpensIsTyped ==
  ASSUME Types, (pc = "scan" /\ i \in Live) \/ Parses, Notes,
         NEW peer \in {"open", "refused", NoSocket}, Opens(peer)
  PROVE  /\ ConnsTypes' /\ table' \in Tables /\ count' \in {count, count - 1}
         /\ sock' \in [Clients -> {"none", "open", "closed"}] /\ wq' \in [Clients -> Seq(Message)]
         /\ servers' \in Seq(ServerSocket) /\ Len(servers') <= MaxServers
<1>1. table \in Tables /\ KernelTypes /\ FarTypes
  BY DEF Types, TypeOK
<1>2. Client \in Clients /\ Now \in Sound
  BY PlaceIsTyped DEF Now
<1>3. <<Reply("granted")>> \in Seq(Message) /\ <<Reply("refused"), Reply("refused")>> \in Seq(Message)
  BY ReplyIsTyped
<1>4. CASE peer = NoSocket
  <2>1. Answers(Client, <<Reply("refused"), Reply("refused")>>) /\ Drop(table) /\ UNCHANGED servers
    BY <1>4 DEF Opens
  <2>2. /\ ConnsTypes' /\ table' \in Tables /\ count' = count - 1
        /\ sock' \in [Clients -> {"none", "open", "closed"}]
    BY <1>1, <2>1, DropIsTyped
  <2>3. wq' \in [Clients -> Seq(Message)]
    BY <1>1, <1>2, <1>3, <2>1, AnswersAreTyped
  <2>. QED
    BY <1>1, <2>1, <2>2, <2>3 DEF FarTypes
<1>5. CASE peer # NoSocket
  <2>1. /\ Len(servers) < MaxServers
        /\ servers' = Append(servers, Server(Now, peer))
        /\ Answers(Client, <<Reply("granted")>>)
        /\ Sets([Now EXCEPT !.server = Len(servers) + 1, !.status = "FORWARDING",
                            !.bufC = <<>>, !.bufS = <<>>])
        /\ UNCHANGED sock
    BY <1>5 DEF Opens
  <2>2. Server(Now, peer) \in ServerSocket
    BY <1>2, <1>5, ServerIsTyped DEF Client, Now
  <2>3. servers' \in Seq(ServerSocket) /\ Len(servers') = Len(servers) + 1 /\ Len(servers) \in Nat
    BY <1>1, <2>1, <2>2, AppendProperties DEF FarTypes
  <2>4. Len(servers') <= MaxServers /\ Len(servers) + 1 \in NoServer..MaxServers
    BY <2>1, <2>3, Bounds DEF NoServer
  <2>5. [Now EXCEPT !.server = Len(servers) + 1, !.status = "FORWARDING",
                    !.bufC = <<>>, !.bufS = <<>>] \in Sound
    BY <1>2, <2>4, EmptySeq DEF Sound, Connection
  <2>6. ConnsTypes' /\ table' \in Tables /\ UNCHANGED count
    BY <2>1, <2>5, KeptIsTyped
  <2>7. wq' \in [Clients -> Seq(Message)]
    BY <1>1, <1>2, <1>3, <2>1, AnswersAreTyped
  <2>. QED
    BY <1>1, <2>1, <2>3, <2>4, <2>6, <2>7 DEF KernelTypes
<1>. QED
  BY <1>4, <1>5

LEMMA RequestIsTyped ==
  ASSUME Types, RequestEnds \/ RequestReads
  PROVE  Types'
<1>. USE DEF At
<1>1. /\ pc = "scan" /\ i \in Live /\ table[i].status = "SOCK_REQUEST"
      /\ UNCHANGED <<backlog, far, peers, stray>>
  BY DEF RequestEnds, RequestReads
<1>2. table \in Tables /\ KernelTypes /\ Notes /\ FarTypes' /\ PeersTypes'
  BY <1>1, Untouched, NotesOf DEF Types, TypeOK
<1>3. Client \in Clients /\ Now \in Sound /\ count \in Int /\ i \in 1..MAX_CONNECTIONS
      /\ count - 1 \in 0..MAX_CONNECTIONS
  BY <1>1, PlaceIsTyped DEF Now
<1>4. CASE RequestEnds
  <2>1. Drop(table) /\ NextEntry /\ UNCHANGED <<inq, wq>>
    BY <1>4 DEF RequestEnds
  <2>2. /\ ConnsTypes' /\ table' \in Tables /\ count' = count - 1
        /\ sock' \in [Clients -> {"none", "open", "closed"}]
    BY <1>1, <1>2, <2>1, DropIsTyped
  <2>. QED
    BY <1>1, <1>2, <2>1, <2>2, HandlerIsTyped DEF KernelTypes
<1>5. CASE RequestReads
  <2>. DEFINE read == [table EXCEPT ![i].bufC = @ \o inq[Client]]
  <2>1. inq' \in [Clients -> Seq(Piece)] /\ UNCHANGED <<i, cev, sev>>
    BY <1>3, <1>5, TakenIsTyped DEF RequestReads
  <2>2. read \in Tables
    <3>1. Now.bufC \in Seq(Piece) /\ inq[Client] \in Seq(Piece)
      BY <1>1, <1>2, <1>3 DEF Sound, KernelTypes, Now
    <3>2. Now.bufC \o inq[Client] \in Seq(Piece)
      BY <3>1, ConcatProperties
    <3>3. [Now EXCEPT !.bufC = @ \o inq[Client]] \in Sound
      BY <1>3, <3>2 DEF Sound, Connection
    <3>4. read = [table EXCEPT ![i] = [Now EXCEPT !.bufC = @ \o inq[Client]]]
      BY DEF Now
    <3>. QED
      BY <1>2, <1>3, <3>3, <3>4 DEF Tables
  <2>3. Room' /\ KernelTypes' /\ ConnsTypes' /\ table' \in Tables /\ Scans' /\ pc' \in {"parse", "parse after drop"}
    <3>1. CASE plan[Client].cmd = "connect"
      <4>1. table' = read /\ pc' = "parse" /\ UNCHANGED <<i, count, wq, sock, backlog, end, stray>>
        BY <1>1, <1>5, <3>1 DEF RequestReads, peers
      <4>2. Room' /\ Scans'
        BY <1>1, <4>1, FewerFit DEF Scans, Live
      <4>3. KernelTypes'
        BY <1>2, <2>1, <4>1 DEF KernelTypes
      <4>4. table' \in Tables /\ table' \in [1..MAX_CONNECTIONS -> Connection]
        BY <2>2, <4>1 DEF Tables, Sound
      <4>5. ConnsTypes'
        BY <4>1, <4>4 DEF ConnsTypes, Types, TypeOK
      <4>. QED
        BY <4>1, <4>2, <4>3, <4>4, <4>5
    <3>2. CASE plan[Client].cmd # "connect"
      <4>1. /\ Answers(Client, <<Reply("refused")>>) /\ Drop(read) /\ pc' = "parse after drop"
            /\ UNCHANGED <<i, backlog, end, stray>>
        BY <1>1, <1>5, <3>2 DEF RequestReads, peers
      <4>0. PICK tab \in Tables : Drop(tab)
        BY <2>2, <4>1
      <4>2. /\ ConnsTypes' /\ table' \in Tables /\ count' = count - 1
            /\ sock' \in [Clients -> {"none", "open", "closed"}]
        BY <1>1, <1>2, <4>0, DropIsTyped
      <4>3. wq' \in [Clients -> Seq(Message)]
        <5>1. <<Reply("refused")>> \in Seq(Message)
          BY ReplyIsTyped
        <5>. QED
          BY <1>2, <1>3, <4>1, <5>1, AnswersAreTyped
      <4>4. KernelTypes'
        BY <1>2, <2>1, <4>1, <4>2, <4>3 DEF KernelTypes
      <4>5. Room'
        BY <4>1, <4>2, FewerFit
      <4>6. Scans'
        <5>1. i <= MAX_CONNECTIONS /\ \A d \in 0..MAX_CONNECTIONS : d >= 0
          BY <1>3, Bounds
        <5>2. count' >= 0
          BY <1>3, <4>2, <5>1
        <5>. QED
          BY <4>1, <5>1, <5>2 DEF Scans
      <4>. QED
        BY <4>1, <4>2, <4>4, <4>5, <4>6
    <3>. QED
      BY <3>1, <3>2
  <2>4. ProxyTypes'
    BY <2>1, <2>3 DEF Types, TypeOK, ProxyTypes
  <2>. QED
    BY <1>2, <2>3, <2>4 DEF Types, TypeOK
<1>. QED
  BY <1>4, <1>5

(* The switch over the type of the address.                                 *)
LEMMA AddressIsTyped ==
  ASSUME Types, RequestShort \/ RequestAddress \/ RequestName \/ RequestOther
  PROVE  Types'
<1>1. Parses /\ NextEntry /\ UNCHANGED <<backlog, inq, peers>>
  BY DEF RequestShort, RequestAddress, RequestName, RequestOther, Skips, kernel
<1>2. table \in Tables /\ KernelTypes /\ FarTypes
  BY DEF Types, TypeOK
<1>3. Client \in Clients /\ Now \in Sound /\ count \in Int
  BY <1>1, PlaceIsTyped DEF Now
<1>4. CASE RequestShort
  BY <1>1, <1>4, SkipsAreTyped DEF RequestShort
<1>5. Strays => Notes
  BY NotesOf
<1>6. CASE RequestAddress
  <2>1. PICK peer \in {"open", "refused", NoSocket} : Opens(peer)
    BY <1>6 DEF RequestAddress
  <2>2. Strays /\ UNCHANGED resolvers
    BY <1>6 DEF RequestAddress
  <2>3. /\ ConnsTypes' /\ table' \in Tables /\ count' \in {count, count - 1}
        /\ sock' \in [Clients -> {"none", "open", "closed"}] /\ wq' \in [Clients -> Seq(Message)]
        /\ servers' \in Seq(ServerSocket) /\ Len(servers') <= MaxServers
    BY <1>1, <1>5, <2>1, <2>2, OpensIsTyped
  <2>4. FarTypes'
    BY <1>2, <2>2, <2>3 DEF FarTypes
  <2>. QED
    BY <1>1, <1>2, <2>3, <2>4, HandlerIsTyped DEF KernelTypes
<1>7. <<Reply("refused")>> \in Seq(Message)
  BY ReplyIsTyped
<1>8. CASE RequestName
  <2>1. Strays /\ UNCHANGED servers
    BY <1>8 DEF RequestName
  <2>2. /\ Append(resolvers, "running") \in Seq({"running", "late", "closed", "leaked"})
        /\ Append(resolvers, "leaked") \in Seq({"running", "late", "closed", "leaked"})
    BY <1>2, AppendProperties DEF FarTypes
  <2>3. CASE /\ resolvers' = Append(resolvers, "running")
             /\ Sets([Now EXCEPT !.status = "RESOLVING", !.R = Len(resolvers) + 1])
             /\ UNCHANGED <<sock, wq>>
    <3>1. FarTypes'
      BY <1>2, <2>1, <2>2, <2>3 DEF FarTypes
    <3>2. Len(resolvers) + 1 \in Nat
      BY <1>2 DEF FarTypes
    <3>3. [Now EXCEPT !.status = "RESOLVING", !.R = Len(resolvers) + 1] \in Sound
      BY <1>3, <3>2 DEF Sound, Connection
    <3>4. ConnsTypes' /\ table' \in Tables /\ UNCHANGED count
      BY <1>1, <1>5, <2>1, <2>3, <3>3, KeptIsTyped
    <3>. QED
      BY <1>1, <1>2, <2>3, <3>1, <3>4, HandlerIsTyped DEF KernelTypes
  <2>4. CASE /\ resolvers' \in {resolvers, Append(resolvers, "leaked")}
             /\ Answers(Client, <<Reply("refused")>>) /\ Drop(table)
    <3>1. FarTypes'
      BY <1>2, <2>1, <2>2, <2>4 DEF FarTypes
    <3>2. /\ ConnsTypes' /\ table' \in Tables /\ count' = count - 1
          /\ sock' \in [Clients -> {"none", "open", "closed"}]
      BY <1>1, <1>2, <1>5, <2>1, <2>4, DropIsTyped
    <3>3. wq' \in [Clients -> Seq(Message)]
      BY <1>2, <1>3, <1>7, <2>4, AnswersAreTyped
    <3>. QED
      BY <1>1, <1>2, <3>1, <3>2, <3>3, HandlerIsTyped DEF KernelTypes
  <2>. QED
    BY <1>8, <2>3, <2>4 DEF RequestName
<1>9. CASE RequestOther
  <2>1. Strays /\ UNCHANGED far /\ Answers(Client, <<Reply("refused")>>) /\ Drop(table)
    BY <1>9 DEF RequestOther
  <2>2. /\ ConnsTypes' /\ table' \in Tables /\ count' = count - 1
        /\ sock' \in [Clients -> {"none", "open", "closed"}]
    BY <1>1, <1>2, <1>5, <2>1, DropIsTyped
  <2>3. wq' \in [Clients -> Seq(Message)] /\ FarTypes'
    BY <1>2, <1>3, <1>7, <2>1, AnswersAreTyped, Untouched
  <2>. QED
    BY <1>1, <1>2, <2>2, <2>3, HandlerIsTyped DEF KernelTypes
<1>. QED
  BY <1>4, <1>6, <1>8, <1>9

LEMMA ResolvingIsTyped ==
  ASSUME Types, ResolvingAnswered \/ ResolvingFails \/ ResolvingWaits
  PROVE  Types'
<1>. USE DEF At
<1>1. /\ pc = "scan" /\ i \in Live /\ NextEntry /\ UNCHANGED <<backlog, inq, peers, stray>>
  BY DEF ResolvingAnswered, ResolvingFails, ResolvingWaits, Skips, kernel
<1>2. table \in Tables /\ KernelTypes /\ FarTypes /\ Notes
  BY <1>1, NotesOf DEF Types, TypeOK
<1>3. Client \in Clients /\ Now.R \in Nat
  <2>1. table[i] \in Sound /\ Client \in Clients
    BY <1>1, PlaceIsTyped
  <2>. QED
    BY <2>1 DEF Now, Sound, Connection
<1>4. Frees(Now.R) => resolvers' \in Seq({"running", "late", "closed", "leaked"})
  <2>1. CASE Now.R \in 1..Len(resolvers)
    BY <1>2, <2>1, ExceptSeq DEF FarTypes, Frees
  <2>2. CASE Now.R \notin 1..Len(resolvers)
    <3>1. DOMAIN resolvers = 1..Len(resolvers)
      BY <1>2 DEF FarTypes
    <3>2. [resolvers EXCEPT ![Now.R] = "closed"] = resolvers
      BY <1>2, <2>2, <3>1 DEF FarTypes
    <3>. QED
      BY <1>2, <3>2 DEF FarTypes, Frees
  <2>. QED
    BY <2>1, <2>2
<1>5. CASE ResolvingAnswered
  <2>1. PICK peer \in {"open", "refused", NoSocket} : Opens(peer)
    BY <1>5 DEF ResolvingAnswered
  <2>2. Frees(Now.R)
    BY <1>5 DEF ResolvingAnswered
  <2>3. /\ ConnsTypes' /\ table' \in Tables /\ count' \in {count, count - 1}
        /\ sock' \in [Clients -> {"none", "open", "closed"}] /\ wq' \in [Clients -> Seq(Message)]
        /\ servers' \in Seq(ServerSocket) /\ Len(servers') <= MaxServers
    BY <1>1, <1>2, <2>1, OpensIsTyped
  <2>4. FarTypes'
    BY <1>4, <2>2, <2>3 DEF FarTypes
  <2>. QED
    BY <1>1, <1>2, <2>3, <2>4, HandlerIsTyped DEF KernelTypes
<1>6. CASE ResolvingFails
  <2>1. Frees(Now.R) /\ UNCHANGED servers /\ Answers(Client, <<Reply("refused")>>) /\ Drop(table)
    BY <1>6 DEF ResolvingFails
  <2>2. /\ ConnsTypes' /\ table' \in Tables /\ count' = count - 1
        /\ sock' \in [Clients -> {"none", "open", "closed"}]
    BY <1>1, <1>2, <2>1, DropIsTyped
  <2>3. <<Reply("refused")>> \in Seq(Message)
    BY ReplyIsTyped
  <2>4. wq' \in [Clients -> Seq(Message)] /\ FarTypes'
    BY <1>2, <1>3, <1>4, <2>1, <2>3, AnswersAreTyped DEF FarTypes
  <2>. QED
    BY <1>1, <1>2, <2>2, <2>4, HandlerIsTyped DEF KernelTypes
<1>7. CASE ResolvingWaits
  BY <1>1, <1>7, SkipsAreTyped DEF ResolvingWaits
<1>. QED
  BY <1>5, <1>6, <1>7

(* The five steps of a connection that forwards, named as in Forwarding.    *)
ReadC == ReadFrom(Now.bufC, cev[i], inq[Client])
ReadS == ReadFrom(Now.bufS, sev[i], servers[Now.server].inq)
ToC == Writable(ReadS, cev[i])
ToS == Writable(ReadC, sev[i])
BufS == IF ~ToC THEN ReadS ELSE IF end[Client] = "reset" THEN EOF ELSE <<>>
BufC == IF ~ToS THEN ReadC ELSE IF servers[Now.server].peer = "refused" THEN EOF ELSE <<>>
NewEntry == [Now EXCEPT !.bufC = BufC, !.bufS = BufS]
NewServer ==
  [servers[Now.server] EXCEPT
     !.inq = IF Now.bufS = <<>> /\ "in" \in sev[i] THEN <<>> ELSE @,
     !.wq = IF ToS /\ servers[Now.server].peer # "refused" THEN @ \o ReadC ELSE @,
     !.open = ~Ends(BufC, BufS)]
ToClient == [x \in DOMAIN ReadS |-> Data(ReadS[x])]

LEMMA ForwardingSteps ==
  ASSUME Types, Serving, Forwarding
  PROVE  /\ pc = "scan" /\ i \in Live /\ i \in 1..MAX_CONNECTIONS /\ Now.status = "FORWARDING"
         /\ Now.server \in 1..Len(servers)
         /\ servers' = [servers EXCEPT ![Now.server] = NewServer]
         /\ IF ToC THEN Answers(Client, ToClient) ELSE UNCHANGED wq
         /\ inq' = [inq EXCEPT ![Client] = IF Now.bufC = <<>> /\ "in" \in cev[i] THEN <<>> ELSE @]
         /\ IF Ends(BufC, BufS) THEN Drop([table EXCEPT ![i] = NewEntry])
            ELSE Sets(NewEntry) /\ UNCHANGED sock
         /\ NextEntry
         /\ UNCHANGED <<backlog, resolvers, peers, stray>>
<1>1. pc = "scan" /\ i \in Live /\ Now.status = "FORWARDING"
  BY DEF Forwarding, At, Now
<1>2. i \in 1..MAX_CONNECTIONS
  BY <1>1, PlaceIsTyped
<1>3. servers \in Seq(ServerSocket)
  BY DEF Types, TypeOK, FarTypes
<1>4. Now.server \in 1..Len(servers)
  BY <1>1, <1>2, <1>3 DEF Serving, Now
<1>5. /\ IF ToC THEN Answers(Client, ToClient) ELSE UNCHANGED wq
      /\ inq' = [inq EXCEPT ![Client] = IF Now.bufC = <<>> /\ "in" \in cev[i] THEN <<>> ELSE @]
      /\ NextEntry
      /\ UNCHANGED <<backlog, resolvers, peers, stray>>
  BY DEF Forwarding, ToC, ToClient, ReadS
<1>6. [table EXCEPT ![i].bufC = BufC, ![i].bufS = BufS] = [table EXCEPT ![i] = NewEntry]
  BY DEF NewEntry, Now
<1>7. IF Ends(BufC, BufS) THEN Drop([table EXCEPT ![i].bufC = BufC, ![i].bufS = BufS])
      ELSE table' = [table EXCEPT ![i].bufC = BufC, ![i].bufS = BufS] /\ UNCHANGED <<count, sock>>
  BY DEF Forwarding, BufC, BufS, ToC, ToS, ReadC, ReadS
<1>8. IF Ends(BufC, BufS) THEN Drop([table EXCEPT ![i] = NewEntry])
      ELSE Sets(NewEntry) /\ UNCHANGED sock
  BY <1>6, <1>7 DEF Sets
<1>9. servers' = [servers EXCEPT
           ![Now.server].inq = IF Now.bufS = <<>> /\ "in" \in sev[i] THEN <<>> ELSE @,
           ![Now.server].wq = IF ToS /\ servers[Now.server].peer # "refused" THEN @ \o ReadC ELSE @,
           ![Now.server].open = ~Ends(BufC, BufS)]
  BY DEF Forwarding, BufC, BufS, ToC, ToS, ReadC, ReadS
<1>10. servers' = [servers EXCEPT ![Now.server] = NewServer]
  BY <1>4, <1>9 DEF NewServer
<1>. QED
  BY <1>1, <1>2, <1>4, <1>5, <1>8, <1>10

LEMMA BuffersAreTyped ==
  ASSUME Types, Now \in Connection, Client \in Clients, servers[Now.server] \in ServerSocket
  PROVE  /\ ReadC \in Seq(Piece) \cup {EOF} /\ (ToS => ReadC \in Seq(Piece))
         /\ ReadS \in Seq(1..MaxData) \cup {EOF} /\ (ToC => ReadS \in Seq(1..MaxData))
         /\ BufC \in Seq(Piece) \cup {EOF} /\ BufS \in Seq(1..MaxData) \cup {EOF}
         /\ NewServer \in ServerSocket
<1>1. <<>> \in Seq(Piece) /\ <<>> \in Seq(1..MaxData) /\ Held(EOF) = <<>> /\ KernelTypes
  BY EmptySeq DEF Held, Types, TypeOK
<1>2. ReadC \in Seq(Piece) \cup {EOF} /\ (ToS => ReadC \in Seq(Piece))
  <2>1. inq[Client] \in Seq(Piece) /\ Now.bufC \in Seq(Piece) \cup {EOF}
    BY <1>1 DEF KernelTypes, Connection
  <2>2. ReadC \in Seq(Piece) \cup {EOF}
    BY <2>1 DEF ReadC, ReadFrom
  <2>. QED
    BY <1>1, <2>2 DEF ToS, Writable
<1>3. ReadS \in Seq(1..MaxData) \cup {EOF} /\ (ToC => ReadS \in Seq(1..MaxData))
  <2>1. servers[Now.server].inq \in Seq(1..MaxData) /\ Now.bufS \in Seq(1..MaxData) \cup {EOF}
    BY DEF ServerSocket, Connection
  <2>2. ReadS \in Seq(1..MaxData) \cup {EOF}
    BY <2>1 DEF ReadS, ReadFrom
  <2>. QED
    BY <1>1, <2>2 DEF ToC, Writable
<1>4. BufC \in Seq(Piece) \cup {EOF} /\ BufS \in Seq(1..MaxData) \cup {EOF}
  BY <1>1, <1>2, <1>3 DEF BufC, BufS
<1>5. NewServer \in ServerSocket
  <2>1. servers[Now.server].wq \in Seq(Piece) /\ (ToS => servers[Now.server].wq \o ReadC \in Seq(Piece))
    BY <1>2, ConcatProperties DEF ServerSocket
  <2>2. (~Ends(BufC, BufS)) \in BOOLEAN
    BY DEF Ends
  <2>. QED
    BY <1>1, <2>1, <2>2 DEF NewServer, ServerSocket
<1>. QED
  BY <1>2, <1>3, <1>4, <1>5

LEMMA ForwardingIsTyped ==
  ASSUME Types, Serving, Forwarding
  PROVE  Types'
<1>1. /\ pc = "scan" /\ i \in Live /\ i \in 1..MAX_CONNECTIONS /\ Now.status = "FORWARDING"
      /\ Now.server \in 1..Len(servers)
      /\ servers' = [servers EXCEPT ![Now.server] = NewServer]
      /\ IF ToC THEN Answers(Client, ToClient) ELSE UNCHANGED wq
      /\ inq' = [inq EXCEPT ![Client] = IF Now.bufC = <<>> /\ "in" \in cev[i] THEN <<>> ELSE @]
      /\ IF Ends(BufC, BufS) THEN Drop([table EXCEPT ![i] = NewEntry])
         ELSE Sets(NewEntry) /\ UNCHANGED sock
      /\ NextEntry
      /\ UNCHANGED <<backlog, resolvers, peers, stray>>
  BY ForwardingSteps
<1>2. table \in Tables /\ KernelTypes /\ FarTypes /\ Notes
  BY <1>1, NotesOf DEF Types, TypeOK
<1>3. Client \in Clients /\ Now \in Sound /\ Now \in Connection
  BY <1>1, PlaceIsTyped DEF Now, Sound
<1>4. servers[Now.server] \in ServerSocket
  BY <1>1, <1>2 DEF FarTypes
<1>5. ToC => ReadS \in Seq(1..MaxData)
  BY <1>3, <1>4, BuffersAreTyped
<1>8. NewEntry \in Sound
  <2>1. BufC \in Seq(Piece) \cup {EOF} /\ BufS \in Seq(1..MaxData) \cup {EOF}
    BY <1>3, <1>4, BuffersAreTyped
  <2>. QED
    BY <1>1, <1>3, <2>1 DEF NewEntry, Sound, Connection
<1>9. NewServer \in ServerSocket
  BY <1>3, <1>4, BuffersAreTyped
<1>10. FarTypes'
  <2>1. servers' \in Seq(ServerSocket) /\ Len(servers') = Len(servers)
    BY <1>1, <1>2, <1>9, ExceptSeq DEF FarTypes
  <2>. QED
    BY <1>1, <1>2, <2>1 DEF FarTypes
<1>11. wq' \in [Clients -> Seq(Message)]
  <2>1. CASE ToC
    <3>1. ToClient \in Seq(Message)
      <4>1. ReadS \in [1..Len(ReadS) -> 1..MaxData] /\ Len(ReadS) \in Nat /\ DOMAIN ReadS = 1..Len(ReadS)
        BY <1>5, <2>1, LenProperties
      <4>2. \A x \in 1..Len(ReadS) : Data(ReadS[x]) \in Message
        BY <4>1, Bounds DEF Data, Message
      <4>. QED
        BY <4>1, <4>2, IsASeq DEF ToClient
    <3>. QED
      BY <1>1, <1>2, <1>3, <2>1, <3>1, AnswersAreTyped
  <2>2. CASE ~ToC
    BY <1>1, <1>2, <2>2 DEF KernelTypes
  <2>. QED
    BY <2>1, <2>2
<1>12. inq' \in [Clients -> Seq(Piece)]
  BY <1>1, <1>2, <1>3, EmptySeq DEF KernelTypes
<1>13. /\ ConnsTypes' /\ table' \in Tables /\ count' \in {count, count - 1}
       /\ sock' \in [Clients -> {"none", "open", "closed"}]
  <2>1. CASE Ends(BufC, BufS)
    <3>1. [table EXCEPT ![i] = NewEntry] \in Tables
      BY <1>1, <1>2, <1>8 DEF Tables
    <3>2. Drop([table EXCEPT ![i] = NewEntry])
      BY <1>1, <2>1
    <3>3. PICK tab \in Tables : Drop(tab)
      BY <3>1, <3>2
    <3>. QED
      BY <1>1, <1>2, <3>3, DropIsTyped
  <2>2. CASE ~Ends(BufC, BufS)
    <3>1. Sets(NewEntry) /\ UNCHANGED sock
      BY <1>1, <2>2
    <3>2. PICK e \in Sound : Sets(e)
      BY <1>8, <3>1
    <3>3. ConnsTypes' /\ table' \in Tables /\ UNCHANGED count
      BY <1>1, <1>2, <3>2, KeptIsTyped
    <3>. QED
      BY <1>2, <3>1, <3>3 DEF KernelTypes
  <2>. QED
    BY <2>1, <2>2
<1>. QED
  BY <1>1, <1>10, <1>11, <1>12, <1>13, HandlerIsTyped

(* Outside the handlers nothing is written but by accept().                 *)
LEMMA LoopIsTyped ==
  ASSUME Types, Poll \/ AcceptNone \/ Dies
  PROVE  Types'
<1>1. UNCHANGED <<conns, kernel, far, peers, stray, count, backlog, end>>
  BY DEF Poll, AcceptNone, Dies, conns, kernel, peers
<1>2. /\ ConnsTypes' /\ table' \in Tables /\ KernelTypes' /\ FarTypes' /\ PeersTypes' /\ Room'
  BY <1>1, Untouched
<1>3. ProxyTypes /\ ConnsTypes /\ MAX_CONNECTIONS \in Nat /\ 1 \in 1..(MAX_CONNECTIONS + 1)
  BY Bounds DEF Types, TypeOK
<1>4. ProxyTypes' /\ Scans'
  <2>1. CASE Poll
    <3>1. \A e \in Connection : ClientEvents(e) \in Events /\ ServerEvents(e) \in Events
      <4>1. ASSUME NEW e \in Connection PROVE ClientEvents(e) \in Events
        BY DEF ClientEvents, Events
      <4>2. ASSUME NEW e \in Connection PROVE ServerEvents(e) \in Events
        <5>1. \A P, Q \in BOOLEAN : {x \in {"in"} : P} \cup {x \in {"out"} : Q} \in Events
          BY DEF Events
        <5>. QED
          BY <5>1 DEF ServerEvents, Events
      <4>. QED
        BY <4>1, <4>2
    <3>2. \A k \in Live : k \in DOMAIN cev => table[k] \in Connection
      <4>1. count \in (-1)..MAX_CONNECTIONS /\ table \in [1..MAX_CONNECTIONS -> Connection]
        BY <1>3 DEF ConnsTypes
      <4>2. \A k \in 1..count : k \in 1..MAX_CONNECTIONS
        BY <1>3, <4>1
      <4>. QED
        BY <4>1, <4>2 DEF Live
    <3>3. cev' \in [1..(MAX_CONNECTIONS + 1) -> Events]
      BY <1>3, <2>1, <3>1, <3>2 DEF Poll, ProxyTypes, Events
    <3>. QED
      BY <1>3, <2>1, <3>1, <3>2, <3>3 DEF Poll, ProxyTypes, Events, Scans
  <2>2. CASE AcceptNone
    BY <1>3, <2>2 DEF AcceptNone, Again, ProxyTypes, Events, Scans
  <2>3. CASE Dies
    BY <1>3, <2>3 DEF Dies, ProxyTypes, Scans
  <2>. QED
    BY <2>1, <2>2, <2>3
<1>. QED
  BY <1>2, <1>4 DEF Types, TypeOK

LEMMA AcceptIsTyped ==
  ASSUME Types, Accept
  PROVE  Types'
<1>. DEFINE c == Head(backlog)
<1>1. /\ ProxyTypes /\ ConnsTypes /\ KernelTypes /\ table \in Tables /\ Room
      /\ MAX_CONNECTIONS \in Nat /\ 1 \in 1..(MAX_CONNECTIONS + 1)
  BY Bounds DEF Types, TypeOK
<1>2. /\ backlog # <<>> /\ count >= 0 /\ Again
      /\ table' = [table EXCEPT ![count + 1] = Entry(c)]
      /\ count' = count + 1
      /\ sock' = [sock EXCEPT ![c] = "open"]
      /\ backlog' = Tail(backlog)
      /\ UNCHANGED <<inq, wq, far, peers, stray, end>>
  BY DEF Accept, Signalled, peers
<1>3. c \in Clients /\ Tail(backlog) \in Seq(Clients) /\ Len(backlog) \in Nat /\ Len(backlog) >= 1
      /\ Len(Tail(backlog)) = Len(backlog) - 1
  BY <1>1, <1>2, HeadTailProperties DEF KernelTypes
<1>4. count \in Nat /\ count + 1 \in 1..MAX_CONNECTIONS
  BY <1>1, <1>2, <1>3, Bounds DEF ConnsTypes, Room
<1>5. Entry(c) \in Sound
  BY <1>3, EntryIsSound
<1>6. table' \in Tables /\ table' \in [1..MAX_CONNECTIONS -> Connection]
  BY <1>1, <1>2, <1>4, <1>5 DEF Tables, Sound
<1>7. ConnsTypes'
  <2>1. count' \in (-1)..MAX_CONNECTIONS /\ count' >= 0
    BY <1>2, <1>4, Bounds
  <2>2. stray' = stray
    BY <1>2
  <2>. QED
    BY <1>1, <1>6, <2>1, <2>2, Zenon DEF ConnsTypes
<1>8. KernelTypes'
  BY <1>1, <1>2, <1>3 DEF KernelTypes
<1>9. FarTypes' /\ PeersTypes'
  BY <1>2, Untouched
<1>10. ProxyTypes' /\ Scans'
  BY <1>1, <1>2 DEF Again, ProxyTypes, Events, Scans
<1>11. Room'
  BY <1>1, <1>2, <1>3, <1>4, Bounds DEF Room, Come
<1>. QED
  BY <1>6, <1>7, <1>8, <1>9, <1>10, <1>11 DEF Types, TypeOK

-----------------------------------------------------------------------------
(* A connection that forwards after a step has the server of one that       *)
(* forwarded before it, or the last one to be opened.                       *)
Served(e) == e.status = "FORWARDING" =>
  \/ Len(servers') > Len(servers) /\ e.server = Len(servers')
  \/ \E j \in 1..MAX_CONNECTIONS : table[j].status = "FORWARDING" /\ table[j].server = e.server
AllServed(tab) == \A k \in 1..MAX_CONNECTIONS : Served(tab[k])

LEMMA ServingIsKept ==
  ASSUME Types, Serving, FarTypes', Len(servers') >= Len(servers), AllServed(table')
  PROVE  Serving'
<1>1. servers \in Seq(ServerSocket) /\ servers' \in Seq(ServerSocket)
  BY DEF Types, TypeOK, FarTypes
<1>2. Len(servers) \in Nat /\ Len(servers') \in Nat
      /\ DOMAIN servers = 1..Len(servers) /\ DOMAIN servers' = 1..Len(servers')
  BY <1>1, LenProperties
<1>. SUFFICES ASSUME NEW k \in 1..MAX_CONNECTIONS, table'[k].status = "FORWARDING"
              PROVE  table'[k].server \in 1..Len(servers')
  BY <1>2 DEF Serving
<1>3. CASE Len(servers') > Len(servers) /\ table'[k].server = Len(servers')
  BY <1>2, <1>3
<1>4. CASE \E j \in 1..MAX_CONNECTIONS : /\ table[j].status = "FORWARDING"
                                        /\ table[j].server = table'[k].server
  BY <1>2, <1>4 DEF Serving
<1>. QED
  BY <1>3, <1>4 DEF AllServed, Served

LEMMA PlacesAreServed ==
  ASSUME table \in Tables, i \in 1..MAX_CONNECTIONS
  PROVE  /\ AllServed(table)
         /\ \A e : Served(e) => AllServed([table EXCEPT ![i] = e])
         /\ \A tab \in Tables : AllServed(tab) => AllServed(Dropped(tab))
<1>1. AllServed(table)
  BY DEF AllServed, Served
<1>2. ASSUME NEW e, Served(e) PROVE AllServed([table EXCEPT ![i] = e])
  BY <1>1, <1>2 DEF AllServed, Tables
<1>3. ASSUME NEW tab \in Tables, AllServed(tab) PROVE AllServed(Dropped(tab))
  <2>1. DOMAIN tab = 1..MAX_CONNECTIONS /\ tab \in [1..MAX_CONNECTIONS -> Sound]
    BY DEF Tables
  <2>2. \A k \in 1..MAX_CONNECTIONS : Dropped(tab)[k] = tab[k] \/ \E j \in 1..MAX_CONNECTIONS : Dropped(tab)[k] = tab[j]
    BY <2>1 DEF Dropped
  <2>. QED
    BY <1>3, <2>2 DEF AllServed
<1>. QED
  BY <1>1, <1>2, <1>3

LEMMA ServingNext ==
  ASSUME Types, Serving, Types', [Next]_vars
  PROVE  Serving'
<1>. SUFFICES Len(servers') >= Len(servers) /\ AllServed(table')
  BY ServingIsKept DEF Types, TypeOK
<1>1. table \in Tables /\ servers \in Seq(ServerSocket) /\ servers' \in Seq(ServerSocket)
      /\ Len(servers) \in Nat /\ Len(servers) >= Len(servers)
  <2>1. table \in Tables /\ servers \in Seq(ServerSocket) /\ servers' \in Seq(ServerSocket)
    BY DEF Types, TypeOK, FarTypes
  <2>. QED
    BY <2>1, LenProperties
<1>2. AllServed(table)
  BY DEF AllServed, Served
<1>3. ASSUME (pc = "scan" /\ i \in Live) \/ Parses
      PROVE  /\ i \in 1..MAX_CONNECTIONS
             /\ \A e : Served(e) => AllServed([table EXCEPT ![i] = e])
             /\ \A tab \in Tables : AllServed(tab) => AllServed(Dropped(tab))
             /\ AllServed(Dropped(table))
  BY <1>1, <1>2, <1>3, PlaceIsTyped, PlacesAreServed
<1>4. ASSUME (pc = "scan" /\ i \in Live) \/ Parses,
             NEW peer \in {"open", "refused", NoSocket}, Opens(peer)
      PROVE  Len(servers') >= Len(servers) /\ AllServed(table')
  <2>1. CASE peer = NoSocket
    BY <1>1, <1>3, <1>4, <2>1 DEF Opens, Drop
  <2>2. CASE peer # NoSocket
    <3>1. servers' = Append(servers, Server(Now, peer))
      BY <1>4, <2>2 DEF Opens
    <3>2. Len(servers') = Len(servers) + 1
      BY <1>1, <3>1
    <3>0. PICK e : e = [Now EXCEPT !.server = Len(servers) + 1, !.status = "FORWARDING",
                                   !.bufC = <<>>, !.bufS = <<>>]
      OBVIOUS
    <3>3. table' = [table EXCEPT ![i] = e]
      BY <1>4, <2>2, <3>0 DEF Opens, Sets
    <3>4. Now \in Sound
      BY <1>4, PlaceIsTyped DEF Now
    <3>5. e.server = Len(servers')
      BY <3>0, <3>2, <3>4 DEF Sound, Connection
    <3>6. Len(servers') > Len(servers) /\ Len(servers') >= Len(servers)
      BY <1>1, <3>2
    <3>7. Served(e)
      BY <3>5, <3>6 DEF Served
    <3>8. AllServed([table EXCEPT ![i] = e])
      BY <1>3, <1>4, <3>7
    <3>. QED
      BY <3>3, <3>6, <3>8
  <2>. QED
    BY <2>1, <2>2
<1>5. CASE \/ Poll \/ Idle \/ RequestShort \/ ResolvingWaits \/ AcceptNone \/ UNCHANGED vars
           \/ KilledReading \/ KilledParsing \/ KilledWriting \/ KilledForwarding
  BY <1>1, <1>2, <1>5 DEF Poll, Idle, RequestShort, ResolvingWaits, AcceptNone, vars,
       KilledReading, KilledParsing, KilledWriting, KilledForwarding, Dies, Skips, conns, far
<1>6. CASE \/ IncomingHangup \/ IncomingEnds \/ IncomingReads \/ AuthFailure \/ AuthSuccess
           \/ RequestEnds \/ RequestReads
  <2>1. pc = "scan" /\ i \in Live /\ UNCHANGED servers /\ Now.status \notin {"RESOLVING", "FORWARDING"}
    BY <1>6 DEF IncomingHangup, IncomingEnds, IncomingReads, AuthFailure, AuthSuccess,
         RequestEnds, RequestReads, At, far, Now
  <2>. DEFINE read == [table EXCEPT ![i].bufC = @ \o inq[Client]]
  <2>2. Now \in Sound
    BY <2>1, PlaceIsTyped DEF Now
  <2>3. AllServed(read)
    <3>1. read = [table EXCEPT ![i] = [Now EXCEPT !.bufC = @ \o inq[Client]]]
      BY DEF Now
    <3>2. Served([Now EXCEPT !.bufC = @ \o inq[Client]])
      BY <2>1, <2>2 DEF Served, Sound, Connection
    <3>. QED
      BY <1>3, <2>1, <3>1, <3>2
  <2>4. read \in Tables
    <3>1. Now.bufC \in Seq(Piece) /\ inq[Client] \in Seq(Piece)
      BY <2>1, <2>2, PlaceIsTyped DEF Sound, Types, TypeOK, KernelTypes
    <3>2. Now.bufC \o inq[Client] \in Seq(Piece)
      BY <3>1, ConcatProperties
    <3>3. [Now EXCEPT !.bufC = @ \o inq[Client]] \in Sound
      BY <2>2, <3>2 DEF Sound, Connection
    <3>. QED
      BY <1>1, <1>3, <2>1, <3>3 DEF Tables, Now
  <2>5. CASE IncomingHangup \/ IncomingEnds \/ AuthFailure \/ RequestEnds
    BY <1>1, <1>3, <2>1, <2>5 DEF IncomingHangup, IncomingEnds, AuthFailure, RequestEnds, Drop
  <2>6. CASE RequestReads
    BY <1>1, <1>3, <2>1, <2>3, <2>4, <2>6 DEF RequestReads, Drop
  <2>7. CASE AuthSuccess
    <3>1. Served([Now EXCEPT !.status = "SOCK_REQUEST", !.bufC = <<>>])
      BY <2>2 DEF Served, Sound, Connection
    <3>. QED
      BY <1>1, <1>3, <2>1, <2>7, <3>1 DEF AuthSuccess, Sets
  <2>8. CASE IncomingReads
    <3>1. CASE plan[Client].version = 5
      <4>1. PICK status \in {"INCOMING", "AUTH_SUCCESS", "AUTH_FAILURE"} :
              Sets([Now EXCEPT !.bufC = Now.bufC \o inq[Client], !.status = status])
        BY <2>8, <3>1 DEF IncomingReads
      <4>2. Served([Now EXCEPT !.bufC = Now.bufC \o inq[Client], !.status = status])
        BY <2>2 DEF Served, Sound, Connection
      <4>. QED
        BY <1>1, <1>3, <2>1, <4>1, <4>2 DEF Sets
    <3>2. CASE plan[Client].version # 5
      BY <1>1, <1>3, <2>1, <2>8, <3>2 DEF IncomingReads, Drop
    <3>. QED
      BY <3>1, <3>2
  <2>. QED
    BY <1>6, <2>5, <2>6, <2>7, <2>8
<1>7. CASE RequestAddress \/ RequestName \/ RequestOther
  <2>1. Parses
    BY <1>7 DEF RequestAddress, RequestName, RequestOther
  <2>2. Now \in Sound
    BY <2>1, PlaceIsTyped DEF Now
  <2>3. Served([Now EXCEPT !.status = "RESOLVING", !.R = Len(resolvers) + 1])
    BY <2>2 DEF Served, Sound, Connection
  <2>4. CASE RequestAddress
    BY <1>4, <2>1, <2>4 DEF RequestAddress
  <2>5. CASE RequestName \/ RequestOther
    BY <1>1, <1>3, <2>1, <2>3, <2>5 DEF RequestName, RequestOther, Sets, Drop, far
  <2>. QED
    BY <1>7, <2>4, <2>5
<1>8. CASE ResolvingAnswered \/ ResolvingFails
  <2>1. pc = "scan" /\ i \in Live
    BY <1>8 DEF ResolvingAnswered, ResolvingFails, At
  <2>. QED
    BY <1>1, <1>3, <1>4, <1>8, <2>1 DEF ResolvingAnswered, ResolvingFails, Drop
<1>9. CASE Forwarding
  <2>1. /\ pc = "scan" /\ i \in Live /\ i \in 1..MAX_CONNECTIONS /\ Now.status = "FORWARDING"
        /\ Now.server \in 1..Len(servers)
        /\ servers' = [servers EXCEPT ![Now.server] = NewServer]
        /\ IF Ends(BufC, BufS) THEN Drop([table EXCEPT ![i] = NewEntry])
           ELSE Sets(NewEntry) /\ UNCHANGED sock
    BY <1>9, ForwardingSteps
  <2>2. Len(servers') = Len(servers)
    <3>1. DOMAIN servers' = DOMAIN servers
      BY <2>1
    <3>. QED
      BY <1>1, <3>1, LenProperties
  <2>3. Served(NewEntry)
    <3>1. Now \in Sound
      BY <2>1, PlaceIsTyped DEF Now
    <3>2. NewEntry.server = Now.server
      BY <3>1 DEF NewEntry, Sound, Connection
    <3>. QED
      BY <2>1, <3>2 DEF Served, Now
  <2>4. AllServed([table EXCEPT ![i] = NewEntry])
    BY <1>3, <2>1, <2>3
  <2>5. AllServed(table')
    <3>1. CASE Ends(BufC, BufS)
      <4>1. table' = Dropped([table EXCEPT ![i] = NewEntry])
        BY <2>1, <3>1 DEF Drop
      <4>2. PICK tab : tab = [table EXCEPT ![i] = NewEntry]
        OBVIOUS
      <4>3. AllServed(tab) /\ table' = Dropped(tab) /\ DOMAIN tab = 1..MAX_CONNECTIONS
        BY <1>1, <2>4, <4>1, <4>2 DEF Tables
      <4>4. \A k \in 1..MAX_CONNECTIONS : table'[k] = tab[k] \/ \E j \in 1..MAX_CONNECTIONS : table'[k] = tab[j]
        BY <4>3 DEF Dropped
      <4>. QED
        BY <4>3, <4>4 DEF AllServed
    <3>2. CASE ~Ends(BufC, BufS)
      BY <2>1, <2>4, <3>2 DEF Sets
    <3>. QED
      BY <3>1, <3>2
  <2>. QED
    BY <1>1, <2>2, <2>5
<1>10. CASE Accept
  <2>1. UNCHANGED servers /\ \E c : table' = [table EXCEPT ![count + 1] = Entry(c)]
    BY <1>10 DEF Accept, far
  <2>2. \A c : Served(Entry(c))
    BY DEF Served, Entry
  <2>. QED
    BY <1>1, <1>2, <2>1, <2>2 DEF AllServed, Tables
<1>11. CASE Around
  <2>1. UNCHANGED table
    BY <1>11 DEF Around, ClientMoves, Connects, Sends, Finishes, Resets, Reads, ServerSends,
         ServerFinishes, ServerReads, ServerMoves, TimePasses, conns
  <2>2. UNCHANGED servers \/ \E s, new : servers' = [servers EXCEPT ![s] = new]
    BY <1>11 DEF Around, ClientMoves, Connects, Sends, Finishes, Resets, Reads, ServerSends,
         ServerFinishes, ServerReads, ServerMoves, TimePasses, far
  <2>3. Len(servers') = Len(servers)
    <3>1. DOMAIN servers' = DOMAIN servers
      BY <2>2
    <3>. QED
      BY <1>1, <3>1, LenProperties
  <2>. QED
    BY <1>1, <1>2, <2>1, <2>3
<1>. QED
  BY <1>5, <1>6, <1>7, <1>8, <1>9, <1>10, <1>11 DEF Next, Proxy

LEMMA TypesNext ==
  ASSUME Types, Serving, [Next]_vars
  PROVE  Types'
<1>1. CASE Poll \/ AcceptNone \/ Accept
  BY <1>1, LoopIsTyped, AcceptIsTyped
<1>2. CASE KilledReading \/ KilledParsing \/ KilledWriting \/ KilledForwarding
  BY <1>2, LoopIsTyped DEF KilledReading, KilledParsing, KilledWriting, KilledForwarding
<1>3. CASE Idle
  BY <1>3, SkipsAreTyped DEF Idle
<1>4. CASE IncomingHangup \/ IncomingEnds \/ IncomingReads \/ AuthFailure \/ AuthSuccess
  BY <1>4, GreetingIsTyped
<1>5. CASE RequestEnds \/ RequestReads
  BY <1>5, RequestIsTyped
<1>6. CASE RequestShort \/ RequestAddress \/ RequestName \/ RequestOther
  BY <1>6, AddressIsTyped
<1>7. CASE ResolvingAnswered \/ ResolvingFails \/ ResolvingWaits
  BY <1>7, ResolvingIsTyped
<1>8. CASE Forwarding
  BY <1>8, ForwardingIsTyped
<1>9. CASE Around
  BY <1>9, ClientsAreTyped, ServersAreTyped, TimeIsTyped DEF Around
<1>10. CASE UNCHANGED vars
  BY <1>10, Untouched DEF vars, proxy, conns, kernel, far, peers, Types, TypeOK
<1>. QED
  BY <1>1, <1>2, <1>3, <1>4, <1>5, <1>6, <1>7, <1>8, <1>9, <1>10 DEF Next, Proxy

(* The table and all around it keep their types in every reachable state;   *)
(* above all the index of accept() stays within the table, although the     *)
(* code never compares it with the table's size, as long as the table has a *)
(* place for every client.                                                  *)
THEOREM TypeCorrect == Spec => []TypeOK
<1>1. Init => Types /\ Serving
  <2>1. Init => Types
    BY InitTypes
  <2>2. Init => Serving
    BY DEF Init, Serving, Entry
  <2>. QED
    BY <2>1, <2>2
<1>2. Types /\ Serving /\ [Next]_vars => (Types /\ Serving)'
  BY TypesNext, ServingNext
<1>3. Types => TypeOK
  BY DEF Types
<1>. QED
  BY <1>1, <1>2, <1>3, PTL DEF Spec

-----------------------------------------------------------------------------
(* Who owns what as long as no handler has gone on with an entry that was   *)
(* not its own.                                                             *)
Opened == {s \in DOMAIN servers : servers[s].open}
AtWork == {r \in DOMAIN resolvers : resolvers[r] \in {"running", "late"}}

OwnClients ==
  /\ \A j, k \in Live : table[j].client = table[k].client => j = k
  /\ \A k \in Live : sock[table[k].client] = "open"
  /\ \A c \in Clients : sock[c] = "open" => \E k \in Live : table[k].client = c
OwnServers ==
  /\ \A k \in Live : IF table[k].status = "FORWARDING"
                     THEN /\ table[k].server \in Opened
                          /\ servers[table[k].server].client = table[k].client
                     ELSE table[k].server = NoServer
  /\ \A s \in Opened : \E k \in Live : table[k].server = s
OwnResolvers ==
  /\ \A j, k \in Live :
       table[j].status = "RESOLVING" /\ table[k].status = "RESOLVING" /\ table[j].R = table[k].R
         => j = k
  /\ \A k \in Live : table[k].status = "RESOLVING" => table[k].R \in AtWork
  /\ \A r \in AtWork : \E k \in Live : table[k].status = "RESOLVING" /\ table[k].R = r
Waiting ==
  /\ \A m, n \in DOMAIN backlog : backlog[m] = backlog[n] => m = n
  /\ \A n \in DOMAIN backlog : sock[backlog[n]] = "none" /\ end[backlog[n]] # "away"
  /\ \A c \in Clients : end[c] = "away" => sock[c] = "none"
Handled == pc = "parse" => table[i].status = "SOCK_REQUEST"

OwnAll == OwnClients /\ OwnServers /\ OwnResolvers /\ Waiting /\ Handled
Own == ~stray => OwnAll

LEMMA LiveIsTyped ==
  ASSUME Types
  PROVE  /\ count \in Int /\ count <= MAX_CONNECTIONS /\ MAX_CONNECTIONS \in Nat
         /\ Live \subseteq 1..MAX_CONNECTIONS
         /\ \A k \in Live : table[k] \in Sound /\ table[k] \in Connection /\ table[k].client \in Clients
         /\ NoServer \notin Opened
<1>1. count \in (-1)..MAX_CONNECTIONS /\ table \in Tables /\ MAX_CONNECTIONS \in Nat
  BY Bounds DEF Types, TypeOK, ConnsTypes
<1>2. \A k \in 1..count : k \in 1..MAX_CONNECTIONS
  BY <1>1
<1>3. \A k \in 1..MAX_CONNECTIONS : table[k] \in Sound
  BY <1>1 DEF Tables
<1>4. \A k \in Live : table[k] \in Sound /\ table[k] \in Connection /\ table[k].client \in Clients
  BY <1>2, <1>3 DEF Live, Sound, Connection
<1>5. NoServer \notin Opened
  <2>1. servers \in Seq(ServerSocket)
    BY DEF Types, TypeOK, FarTypes
  <2>2. 0 \notin DOMAIN servers
    BY <2>1, LenProperties
  <2>. QED
    BY <2>2 DEF Opened, NoServer
<1>. QED
  BY <1>1, <1>2, <1>4, <1>5 DEF Live

(* Where an entry was before the freed place was filled.                    *)
Came(k) == IF k = i THEN count ELSE k

LEMMA Moves ==
  ASSUME Types, i \in Live, NEW tab, DOMAIN tab = 1..MAX_CONNECTIONS, Drop(tab),
         \A k \in Live : k # i => tab[k] = table[k]
  PROVE  /\ \A k \in Live' : Came(k) \in Live /\ Came(k) # i /\ table'[k] = table[Came(k)]
         /\ \A j, k \in Live' : Came(j) = Came(k) => j = k
         /\ \A j \in Live : j # i => \E k \in Live' : Came(k) = j
<1>1. count' = count - 1 /\ table' = [tab EXCEPT ![i] = IF count \in DOMAIN tab THEN tab[count] ELSE @]
  BY DEF Drop, Dropped
<1>2. /\ count \in Int /\ count <= MAX_CONNECTIONS /\ MAX_CONNECTIONS \in Nat
      /\ i \in 1..count /\ i \in 1..MAX_CONNECTIONS
  BY LiveIsTyped DEF Live
<1>3. Live' = 1..(count - 1)
  BY <1>1 DEF Live
<1>4. ASSUME NEW k \in Live' PROVE Came(k) \in Live /\ Came(k) # i /\ table'[k] = table[Came(k)]
  <2>1. CASE k = i
    <3>1. count \in 1..MAX_CONNECTIONS /\ count \in 1..count /\ count # i
      BY <1>2, <1>3, <2>1
    <3>. QED
      BY <1>1, <1>2, <2>1, <3>1 DEF Came, Live
  <2>2. CASE k # i
    <3>1. k \in 1..count
      BY <1>2, <1>3
    <3>2. k \in 1..MAX_CONNECTIONS
      BY <1>2, <3>1
    <3>. QED
      BY <1>1, <2>2, <3>1, <3>2 DEF Came, Live
  <2>. QED
    BY <2>1, <2>2
<1>5. ASSUME NEW j \in Live', NEW k \in Live', Came(j) = Came(k) PROVE j = k
  <2>1. j # count /\ k # count
    BY <1>2, <1>3
  <2>. QED
    BY <1>5, <2>1 DEF Came
<1>6. ASSUME NEW j \in Live, j # i PROVE \E k \in Live' : Came(k) = j
  <2>1. CASE j = count
    <3>1. i \in 1..(count - 1)
      BY <1>2, <1>6, <2>1
    <3>. QED
      BY <1>3, <2>1, <3>1 DEF Came
  <2>2. CASE j # count
    <3>1. j \in 1..(count - 1)
      BY <1>2, <2>2 DEF Live
    <3>. QED
      BY <1>3, <1>6, <3>1 DEF Came
  <2>. QED
    BY <2>1, <2>2
<1>. QED
  BY <1>4, <1>5, <1>6

(* A connection that is dropped takes what it owns along, and nothing else. *)
LEMMA DropOwns ==
  ASSUME Types, OwnAll, i \in Live, NEW tab, DOMAIN tab = 1..MAX_CONNECTIONS, Drop(tab),
         \A k \in Live : k # i => tab[k] = table[k],
         UNCHANGED <<backlog, end>>, pc' # "parse",
         Opened' = Opened \ {Now.server},
         \A s \in Opened' : servers'[s].client = servers[s].client,
         AtWork' = IF Now.status = "RESOLVING" THEN AtWork \ {Now.R} ELSE AtWork
  PROVE  OwnAll'
<1>1. /\ \A k \in Live' : Came(k) \in Live /\ Came(k) # i /\ table'[k] = table[Came(k)]
      /\ \A j, k \in Live' : Came(j) = Came(k) => j = k
      /\ \A j \in Live : j # i => \E k \in Live' : Came(k) = j
  BY Moves
<1>2. /\ OwnClients /\ OwnServers /\ OwnResolvers /\ Waiting
      /\ sock' = [sock EXCEPT ![Client] = "closed"]
      /\ Now = table[i] /\ Client = table[i].client /\ Client \in Clients
      /\ sock \in [Clients -> {"none", "open", "closed"}]
      /\ \A k \in Live : table[k].client \in Clients
      /\ NoServer \notin Opened
  BY LiveIsTyped DEF OwnAll, Drop, Now, Client, Types, TypeOK, KernelTypes
<1>3. \A c \in Clients : c # Client => sock'[c] = sock[c]
  BY <1>2
<1>4. sock'[Client] = "closed" /\ sock[Client] = "open"
  BY <1>2 DEF OwnClients
<1>5. OwnClients'
  <2>1. ASSUME NEW j \in Live', NEW k \in Live', table'[j].client = table'[k].client PROVE j = k
    BY <1>1, <1>2, <2>1 DEF OwnClients
  <2>2. ASSUME NEW k \in Live' PROVE sock'[table'[k].client] = "open"
    <3>1. table[Came(k)].client # Client /\ table[Came(k)].client \in Clients
      BY <1>1, <1>2 DEF OwnClients
    <3>. QED
      BY <1>1, <1>2, <1>3, <3>1 DEF OwnClients
  <2>3. ASSUME NEW c \in Clients, sock'[c] = "open" PROVE \E k \in Live' : table'[k].client = c
    <3>1. c # Client /\ sock[c] = "open"
      BY <1>3, <1>4, <2>3
    <3>2. PICK j \in Live : table[j].client = c
      BY <1>2, <3>1 DEF OwnClients
    <3>. QED
      BY <1>1, <1>2, <3>1, <3>2
  <2>. QED
    BY <2>1, <2>2, <2>3 DEF OwnClients
<1>6. OwnServers'
  <2>1. ASSUME NEW k \in Live', table'[k].status = "FORWARDING"
        PROVE  table'[k].server \in Opened' /\ servers'[table'[k].server].client = table'[k].client
    <3>1. PICK j \in Live : j # i /\ table'[k] = table[j]
      BY <1>1
    <3>2. table[j].server \in Opened /\ servers[table[j].server].client = table[j].client
      BY <1>2, <2>1, <3>1 DEF OwnServers
    <3>3. table[j].server # Now.server
      <4>1. SUFFICES ASSUME table[j].server = Now.server PROVE FALSE
        OBVIOUS
      <4>2. Now.status = "FORWARDING"
        BY <1>2, <3>2, <4>1 DEF OwnServers
      <4>3. servers[Now.server].client = Client
        BY <1>2, <4>2 DEF OwnServers
      <4>. QED
        BY <1>2, <3>1, <3>2, <4>1, <4>3 DEF OwnClients
    <3>. QED
      BY <3>1, <3>2, <3>3
  <2>2. ASSUME NEW k \in Live', table'[k].status # "FORWARDING" PROVE table'[k].server = NoServer
    BY <1>1, <1>2, <2>2 DEF OwnServers
  <2>3. ASSUME NEW s \in Opened' PROVE \E k \in Live' : table'[k].server = s
    <3>1. PICK j \in Live : table[j].server = s
      BY <1>2 DEF OwnServers
    <3>2. j # i
      BY <1>2, <3>1
    <3>. QED
      BY <1>1, <3>1, <3>2
  <2>. QED
    BY <2>1, <2>2, <2>3, Zenon DEF OwnServers, NoServer
<1>7. OwnResolvers'
  <2>1. ASSUME NEW j \in Live', NEW k \in Live', table'[j].status = "RESOLVING",
               table'[k].status = "RESOLVING", table'[j].R = table'[k].R
        PROVE  j = k
    BY <1>1, <1>2, <2>1 DEF OwnResolvers
  <2>2. ASSUME NEW k \in Live', table'[k].status = "RESOLVING" PROVE table'[k].R \in AtWork'
    BY <1>1, <1>2, <2>2 DEF OwnResolvers
  <2>3. ASSUME NEW r \in AtWork' PROVE \E k \in Live' : table'[k].status = "RESOLVING" /\ table'[k].R = r
    <3>1. r \in AtWork
      OBVIOUS
    <3>2. PICK j \in Live : table[j].status = "RESOLVING" /\ table[j].R = r
      BY <1>2, <3>1 DEF OwnResolvers
    <3>3. j # i
      BY <1>2, <3>2
    <3>. QED
      BY <1>1, <3>2, <3>3
  <2>. QED
    BY <2>1, <2>2, <2>3 DEF OwnResolvers
<1>8. Waiting'
  <2>1. \A n \in DOMAIN backlog : backlog[n] \in Clients /\ backlog[n] # Client
    BY <1>2, <1>4 DEF Waiting, Types, TypeOK, KernelTypes
  <2>. QED
    BY <1>2, <1>3, <1>4, <2>1 DEF Waiting
<1>. QED
  BY <1>5, <1>6, <1>7, <1>8 DEF OwnAll, Handled

(* An entry that stays what it is as to its client, server and resolver.    *)
Alike(e, f) ==
  /\ e.client = f.client /\ e.server = f.server /\ e.R = f.R
  /\ e.status = f.status \/ {e.status, f.status} \cap {"RESOLVING", "FORWARDING"} = {}
SameServers == Opened' = Opened /\ \A s \in Opened : servers'[s].client = servers[s].client

LEMMA KeepOwns ==
  ASSUME OwnAll, UNCHANGED <<count, sock>>, \A k \in Live : Alike(table[k], table'[k]),
         SameServers, AtWork' = AtWork
  PROVE  OwnClients' /\ OwnServers' /\ OwnResolvers'
<1>1. Live' = Live /\ OwnClients /\ OwnServers /\ OwnResolvers
  BY DEF Live, OwnAll
<1>2. \A k \in Live : /\ table'[k].client = table[k].client /\ table'[k].server = table[k].server
                      /\ table'[k].R = table[k].R
                      /\ table'[k].status = "RESOLVING" <=> table[k].status = "RESOLVING"
                      /\ table'[k].status = "FORWARDING" <=> table[k].status = "FORWARDING"
  BY DEF Alike
<1>3. OwnClients'
  BY <1>1, <1>2 DEF OwnClients
<1>4. OwnServers'
  BY <1>1, <1>2 DEF OwnServers, SameServers
<1>5. OwnResolvers'
  BY <1>1, <1>2 DEF OwnResolvers
<1>. QED
  BY <1>3, <1>4, <1>5

(* A connection whose address is known is given a new server, and its       *)
(* resolver, if it had one, is closed.                                      *)
LEMMA OpenOwns ==
  ASSUME Types, OwnAll, i \in Live, Now.status # "FORWARDING", UNCHANGED sock,
         NEW e, Sets(e), e.client = Client, e.status = "FORWARDING",
         e.server \notin Opened, Opened' = Opened \cup {e.server},
         \A s \in Opened : servers'[s].client = servers[s].client,
         servers'[e.server].client = Client,
         AtWork' = IF Now.status = "RESOLVING" THEN AtWork \ {Now.R} ELSE AtWork
  PROVE  OwnClients' /\ OwnServers' /\ OwnResolvers'
<1>1. /\ Live' = Live /\ OwnClients /\ OwnServers /\ OwnResolvers
      /\ Now = table[i] /\ Client = table[i].client
  BY DEF Live, OwnAll, Sets, Now, Client
<1>2. table'[i] = e /\ \A k \in Live : k # i => table'[k] = table[k]
  <2>1. i \in 1..MAX_CONNECTIONS /\ table \in Tables
    BY LiveIsTyped DEF Types
  <2>. QED
    BY <2>1 DEF Sets, Tables
<1>3. OwnClients'
  BY <1>1, <1>2 DEF OwnClients
<1>4. OwnServers'
  <2>1. ASSUME NEW k \in Live, table'[k].status = "FORWARDING"
        PROVE  table'[k].server \in Opened' /\ servers'[table'[k].server].client = table'[k].client
    BY <1>1, <1>2, <2>1 DEF OwnServers
  <2>2. ASSUME NEW k \in Live, table'[k].status # "FORWARDING" PROVE table'[k].server = NoServer
    BY <1>1, <1>2, <2>2 DEF OwnServers
  <2>3. ASSUME NEW s \in Opened' PROVE \E k \in Live : table'[k].server = s
    <3>1. CASE s = e.server
      BY <1>2, <3>1
    <3>2. CASE s \in Opened
      <4>1. PICK j \in Live : table[j].server = s
        BY <1>1, <3>2 DEF OwnServers
      <4>2. j # i
        BY <1>1, <3>2, <4>1, LiveIsTyped DEF OwnServers
      <4>. QED
        BY <1>2, <4>1, <4>2
    <3>. QED
      BY <3>1, <3>2
  <2>. QED
    BY <1>1, <2>1, <2>2, <2>3, Zenon DEF OwnServers, NoServer
<1>5. OwnResolvers'
  BY <1>1, <1>2 DEF OwnResolvers
<1>. QED
  BY <1>3, <1>4, <1>5

(* A name is submitted to a resolver of its own.                            *)
LEMMA ResolveOwns ==
  ASSUME Types, OwnAll, i \in Live, Now.status \notin {"RESOLVING", "FORWARDING"}, UNCHANGED sock,
         NEW e, Sets(e), e.client = Client, e.server = Now.server, e.status = "RESOLVING",
         e.R \notin AtWork, AtWork' = AtWork \cup {e.R}, SameServers
  PROVE  OwnClients' /\ OwnServers' /\ OwnResolvers'
<1>1. /\ Live' = Live /\ OwnClients /\ OwnServers /\ OwnResolvers
      /\ Now = table[i] /\ Client = table[i].client
  BY DEF Live, OwnAll, Sets, Now, Client
<1>2. table'[i] = e /\ \A k \in Live : k # i => table'[k] = table[k]
  <2>1. i \in 1..MAX_CONNECTIONS /\ table \in Tables
    BY LiveIsTyped DEF Types
  <2>. QED
    BY <2>1 DEF Sets, Tables
<1>3. OwnClients'
  BY <1>1, <1>2 DEF OwnClients
<1>4. OwnServers'
  BY <1>1, <1>2 DEF OwnServers, SameServers
<1>5. OwnResolvers'
  BY <1>1, <1>2 DEF OwnResolvers
<1>. QED
  BY <1>3, <1>4, <1>5

LEMMA AcceptOwns ==
  ASSUME Types, OwnAll, Accept
  PROVE  OwnAll'
<1>. DEFINE c == Head(backlog)
<1>1. /\ OwnClients /\ OwnServers /\ OwnResolvers /\ Waiting /\ table \in Tables
      /\ backlog \in Seq(Clients) /\ sock \in [Clients -> {"none", "open", "closed"}]
      /\ NoServer \notin Opened
  BY LiveIsTyped DEF OwnAll, Types, TypeOK, KernelTypes
<1>2. /\ backlog # <<>> /\ count >= 0 /\ pc' = "poll"
      /\ table' = [table EXCEPT ![count + 1] = Entry(c)]
      /\ count' = count + 1
      /\ sock' = [sock EXCEPT ![c] = "open"]
      /\ backlog' = Tail(backlog)
      /\ UNCHANGED <<servers, resolvers, end>>
  BY DEF Accept, Signalled, peers, far, Again
<1>3. /\ c \in Clients /\ 1 \in DOMAIN backlog /\ backlog[1] = c /\ sock[c] = "none" /\ end[c] # "away"
      /\ \A n \in DOMAIN backlog' : /\ n + 1 \in DOMAIN backlog /\ n + 1 # 1
                                     /\ backlog'[n] = backlog[n + 1] /\ backlog[n + 1] \in Clients
      /\ \A m, n \in DOMAIN backlog' : m + 1 = n + 1 => m = n
  <2>1. /\ c \in Clients /\ Len(backlog) \in Nat /\ Len(backlog) >= 1 /\ c = backlog[1]
        /\ DOMAIN backlog = 1..Len(backlog) /\ DOMAIN Tail(backlog) = 1..(Len(backlog) - 1)
        /\ \A n \in 1..(Len(backlog) - 1) : Tail(backlog)[n] = backlog[n + 1] /\ n + 1 \in 1..Len(backlog)
        /\ \A n \in 1..Len(backlog) : backlog[n] \in Clients
    <3>1. Len(Tail(backlog)) = Len(backlog) - 1 /\ Tail(backlog) \in Seq(Clients) /\ c \in Clients
      BY <1>1, <1>2, HeadTailProperties
    <3>2. Len(backlog) \in Nat /\ Len(backlog) >= 1 /\ DOMAIN backlog = 1..Len(backlog)
      BY <1>1, <1>2, LenProperties
    <3>. QED
      BY <1>1, <1>2, <3>1, <3>2, HeadTailProperties, LenProperties
  <2>2. sock[c] = "none" /\ end[c] # "away" /\ 1 \in DOMAIN backlog
    BY <1>1, <2>1 DEF Waiting
  <2>. QED
    BY <1>2, <2>1, <2>2
<1>4. /\ Live' = Live \cup {count + 1} /\ count + 1 \notin Live
      /\ table'[count + 1] = Entry(c) /\ \A k \in Live : table'[k] = table[k]
  <2>1. count \in Nat /\ count + 1 \in 1..MAX_CONNECTIONS
    <3>1. count \in Int /\ Room /\ Len(backlog) \in Nat /\ Len(backlog) >= 1
      <4>1. Len(backlog) # 0 /\ Len(backlog) \in Nat
        BY <1>1, <1>2, EmptySeq
      <4>. QED
        BY <4>1, LiveIsTyped DEF Types
    <3>. QED
      BY <1>2, <3>1, Bounds DEF Room
  <2>2. Live \subseteq 1..MAX_CONNECTIONS
    BY LiveIsTyped
  <2>. QED
    BY <1>1, <1>2, <2>1, <2>2 DEF Live, Tables
<1>5. Entry(c).client = c /\ Entry(c).server = NoServer /\ Entry(c).status = "INCOMING"
  BY DEF Entry
<1>6. Opened' = Opened /\ AtWork' = AtWork
  BY <1>2 DEF Opened, AtWork
<1>7. OwnClients'
  <2>1. \A k \in Live : table[k].client # c
    BY <1>1, <1>3 DEF OwnClients
  <2>2. \A k \in Live : table[k].client \in Clients
    BY LiveIsTyped
  <2>3. ASSUME NEW d \in Clients, sock'[d] = "open" PROVE \E k \in Live' : table'[k].client = d
    BY <1>1, <1>2, <1>3, <1>4, <1>5, <2>3 DEF OwnClients
  <2>4. \A k \in Live' : sock'[table'[k].client] = "open"
    BY <1>1, <1>2, <1>3, <1>4, <1>5, <2>1, <2>2 DEF OwnClients
  <2>5. ASSUME NEW j \in Live', NEW k \in Live', table'[j].client = table'[k].client PROVE j = k
    BY <1>1, <1>4, <1>5, <2>1, <2>5 DEF OwnClients
  <2>. QED
    BY <2>3, <2>4, <2>5 DEF OwnClients
<1>8. OwnServers'
  BY <1>1, <1>2, <1>4, <1>5, <1>6 DEF OwnServers
<1>9. OwnResolvers'
  BY <1>1, <1>4, <1>5, <1>6 DEF OwnResolvers
<1>10. Waiting'
  <2>1. ASSUME NEW m \in DOMAIN backlog', NEW n \in DOMAIN backlog', backlog'[m] = backlog'[n] PROVE m = n
    BY <1>1, <1>3, <2>1 DEF Waiting
  <2>2. ASSUME NEW n \in DOMAIN backlog' PROVE sock'[backlog'[n]] = "none" /\ end'[backlog'[n]] # "away"
    <3>1. n + 1 \in DOMAIN backlog /\ n + 1 # 1 /\ backlog'[n] = backlog[n + 1] /\ backlog[n + 1] \in Clients
      BY <1>3
    <3>2. PICK m \in DOMAIN backlog : m = n + 1
      BY <3>1
    <3>3. backlog[m] # c
      BY <1>1, <1>3, <3>1, <3>2 DEF Waiting
    <3>. QED
      BY <1>1, <1>2, <3>1, <3>2, <3>3 DEF Waiting
  <2>3. \A d \in Clients : end'[d] = "away" => sock'[d] = "none"
    BY <1>1, <1>2, <1>3 DEF Waiting
  <2>. QED
    BY <2>1, <2>2, <2>3 DEF Waiting
<1>. QED
  BY <1>2, <1>7, <1>8, <1>9, <1>10 DEF OwnAll, Handled

(* What the steps on servers and resolvers do to those that are open.       *)
LEMMA OpenedBy ==
  ASSUME Types
  PROVE  /\ UNCHANGED servers => SameServers
         /\ \A s \in DOMAIN servers, new \in ServerSocket :
              servers' = [servers EXCEPT ![s] = new] /\ new.client = servers[s].client =>
                 /\ new.open = servers[s].open => SameServers
                 /\ ~new.open => Opened' = Opened \ {s} /\ \A n \in Opened' : servers'[n].client = servers[n].client
         /\ \A new \in ServerSocket : servers' = Append(servers, new) /\ new.open =>
              /\ Len(servers) + 1 \notin Opened /\ Opened' = Opened \cup {Len(servers) + 1}
              /\ servers'[Len(servers) + 1] = new
              /\ \A n \in DOMAIN servers : servers'[n] = servers[n]
<1>1. servers \in Seq(ServerSocket) /\ Len(servers) \in Nat /\ DOMAIN servers = 1..Len(servers)
  BY LenProperties DEF Types, TypeOK, FarTypes
<1>2. UNCHANGED servers => SameServers
  BY DEF SameServers, Opened
<1>3. ASSUME NEW s \in DOMAIN servers, NEW new \in ServerSocket, servers' = [servers EXCEPT ![s] = new],
             new.client = servers[s].client, new.open = servers[s].open
      PROVE  SameServers
  <2>1. DOMAIN servers' = DOMAIN servers /\ \A n \in DOMAIN servers : servers'[n].open = servers[n].open
    BY <1>1, <1>3
  <2>. QED
    BY <1>1, <1>3, <2>1 DEF SameServers, Opened
<1>4. ASSUME NEW s \in DOMAIN servers, NEW new \in ServerSocket, servers' = [servers EXCEPT ![s] = new],
             new.client = servers[s].client, ~new.open
      PROVE  Opened' = Opened \ {s} /\ \A n \in Opened' : servers'[n].client = servers[n].client
  <2>1. DOMAIN servers' = DOMAIN servers /\ servers'[s] = new /\ \A n \in DOMAIN servers : n # s => servers'[n] = servers[n]
    BY <1>1, <1>4
  <2>. QED
    BY <1>4, <2>1 DEF Opened
<1>5. ASSUME NEW new \in ServerSocket, servers' = Append(servers, new), new.open
      PROVE  /\ Len(servers) + 1 \notin Opened /\ Opened' = Opened \cup {Len(servers) + 1}
             /\ servers'[Len(servers) + 1] = new
             /\ \A n \in DOMAIN servers : servers'[n] = servers[n]
  <2>1. PICK l : l = Len(servers) + 1
    OBVIOUS
  <2>2. DOMAIN servers' = DOMAIN servers \cup {l} /\ l \notin DOMAIN servers
    <3>1. Len(servers') = Len(servers) + 1 /\ servers' \in Seq(ServerSocket)
      BY <1>1, <1>5, AppendProperties
    <3>2. DOMAIN servers' = 1..(Len(servers) + 1)
      BY <3>1, LenProperties
    <3>. QED
      BY <1>1, <2>1, <3>2
  <2>3. servers'[l] = new /\ \A n \in DOMAIN servers : servers'[n] = servers[n]
    BY <1>1, <1>5, <2>1, AppendProperties
  <2>4. l \notin Opened /\ Opened' = Opened \cup {l}
    BY <1>5, <2>2, <2>3 DEF Opened
  <2>. QED
    BY <2>1, <2>3, <2>4
<1>. QED
  BY <1>2, <1>3, <1>4, <1>5

LEMMA AtWorkBy ==
  ASSUME Types
  PROVE  /\ UNCHANGED resolvers => AtWork' = AtWork
         /\ \A r \in DOMAIN resolvers : TimePasses(r) => AtWork' = AtWork
         /\ \A r \in DOMAIN resolvers : Frees(r) => AtWork' = AtWork \ {r}
         /\ resolvers' = Append(resolvers, "leaked") => AtWork' = AtWork
         /\ resolvers' = Append(resolvers, "running") =>
              Len(resolvers) + 1 \notin AtWork /\ AtWork' = AtWork \cup {Len(resolvers) + 1}
<1>1. /\ resolvers \in Seq({"running", "late", "closed", "leaked"})
      /\ Len(resolvers) \in Nat /\ DOMAIN resolvers = 1..Len(resolvers)
  BY LenProperties DEF Types, TypeOK, FarTypes
<1>2. ASSUME NEW r \in DOMAIN resolvers, TimePasses(r) PROVE AtWork' = AtWork
  BY <1>1, <1>2 DEF TimePasses, AtWork
<1>3. ASSUME NEW r \in DOMAIN resolvers, Frees(r) PROVE AtWork' = AtWork \ {r}
  BY <1>1, <1>3 DEF Frees, AtWork
<1>4. ASSUME NEW new \in {"running", "leaked"}, resolvers' = Append(resolvers, new)
      PROVE  /\ new = "leaked" => AtWork' = AtWork
             /\ new = "running" => Len(resolvers) + 1 \notin AtWork /\ AtWork' = AtWork \cup {Len(resolvers) + 1}
  <2>1. PICK l : l = Len(resolvers) + 1
    OBVIOUS
  <2>2. DOMAIN resolvers' = DOMAIN resolvers \cup {l} /\ l \notin DOMAIN resolvers
    <3>1. Len(resolvers') = Len(resolvers) + 1 /\ resolvers' \in Seq({"running", "late", "closed", "leaked"})
      BY <1>1, <1>4, AppendProperties
    <3>2. DOMAIN resolvers' = 1..(Len(resolvers) + 1)
      BY <3>1, LenProperties
    <3>. QED
      BY <1>1, <2>1, <3>2
  <2>3. resolvers'[l] = new /\ \A n \in DOMAIN resolvers : resolvers'[n] = resolvers[n]
    BY <1>1, <1>4, <2>1, AppendProperties
  <2>4. new = "leaked" => AtWork' = AtWork
    BY <2>2, <2>3 DEF AtWork
  <2>5. new = "running" => l \notin AtWork /\ AtWork' = AtWork \cup {l}
    BY <2>2, <2>3 DEF AtWork
  <2>. QED
    BY <2>1, <2>4, <2>5
<1>. QED
  BY <1>2, <1>3, <1>4 DEF AtWork

(* Before it is resolved or forwards a connection owns nothing but itself.  *)
LEMMA EarlyDropOwns ==
  ASSUME Types, OwnAll, i \in Live, Now.status \notin {"RESOLVING", "FORWARDING"},
         NEW tab, DOMAIN tab = 1..MAX_CONNECTIONS, Drop(tab),
         \A k \in Live : k # i => tab[k] = table[k],
         UNCHANGED <<backlog, end, servers>>, AtWork' = AtWork, pc' # "parse"
  PROVE  OwnAll'
<1>1. Now.server = NoServer /\ NoServer \notin Opened
  BY LiveIsTyped DEF OwnAll, OwnServers, Now
<1>2. SameServers
  BY OpenedBy
<1>3. Opened' = Opened \ {Now.server} /\ \A s \in Opened' : servers'[s].client = servers[s].client
  BY <1>1, <1>2 DEF SameServers
<1>4. AtWork' = IF Now.status = "RESOLVING" THEN AtWork \ {Now.R} ELSE AtWork
  OBVIOUS
<1>. QED
  BY <1>3, <1>4, DropOwns

LEMMA KeptOwns ==
  ASSUME Types, OwnAll, i \in Live, NEW e, Sets(e), Alike(Now, e), UNCHANGED <<sock, backlog, end>>,
         SameServers, AtWork' = AtWork, pc' = "parse" => i' = i /\ e.status = "SOCK_REQUEST"
  PROVE  OwnAll'
<1>1. i \in 1..MAX_CONNECTIONS /\ table \in Tables
  BY LiveIsTyped DEF Types
<1>2. UNCHANGED count /\ table'[i] = e /\ \A k \in Live : k # i => table'[k] = table[k]
  BY <1>1 DEF Sets, Tables
<1>3. \A k \in Live : Alike(table[k], table'[k])
  BY <1>2 DEF Alike, Now
<1>4. OwnClients' /\ OwnServers' /\ OwnResolvers'
  BY <1>2, <1>3, KeepOwns
<1>5. Waiting'
  BY DEF OwnAll, Waiting
<1>6. Handled'
  BY <1>2 DEF Handled
<1>. QED
  BY <1>4, <1>5, <1>6 DEF OwnAll

LEMMA SkipsOwn ==
  ASSUME Types, OwnAll, UNCHANGED <<conns, kernel, far, peers>>, pc' # "parse" \/ UNCHANGED <<pc, i>>
  PROVE  OwnAll'
<1>1. UNCHANGED <<table, count, sock, backlog, end, servers, resolvers>>
  BY DEF conns, kernel, far, peers
<1>2. SameServers /\ AtWork' = AtWork /\ \A k \in Live : Alike(table[k], table'[k])
  BY <1>1, OpenedBy, AtWorkBy DEF Alike
<1>3. OwnClients' /\ OwnServers' /\ OwnResolvers'
  BY <1>1, <1>2, KeepOwns
<1>4. Waiting' /\ Handled'
  BY <1>1 DEF OwnAll, Waiting, Handled
<1>. QED
  BY <1>3, <1>4 DEF OwnAll

LEMMA GreetingOwns ==
  ASSUME Types, OwnAll, \/ IncomingHangup \/ IncomingEnds \/ IncomingReads \/ AuthFailure \/ AuthSuccess
                       \/ RequestEnds \/ RequestReads
  PROVE  OwnAll'
<1>1. /\ i \in Live /\ Now.status \notin {"RESOLVING", "FORWARDING"}
      /\ UNCHANGED <<backlog, end, servers, resolvers>>
  BY DEF IncomingHangup, IncomingEnds, IncomingReads, AuthFailure, AuthSuccess,
       RequestEnds, RequestReads, At, far, Now, peers
<1>2. SameServers /\ AtWork' = AtWork
  BY <1>1, OpenedBy, AtWorkBy
<1>3. Now \in Connection /\ table \in Tables /\ i \in 1..MAX_CONNECTIONS
  BY <1>1, LiveIsTyped DEF Now, Types
<1>4. DOMAIN table = 1..MAX_CONNECTIONS
  BY <1>3 DEF Tables
<1>5. Drop(table) /\ pc' # "parse" => OwnAll'
  BY <1>1, <1>2, <1>4, EarlyDropOwns
<1>6. CASE IncomingHangup \/ IncomingEnds \/ AuthFailure \/ RequestEnds
  BY <1>5, <1>6 DEF IncomingHangup, IncomingEnds, AuthFailure, RequestEnds, NextEntry
<1>7. CASE IncomingReads
  <2>1. CASE plan[Client].version = 5
    <3>1. PICK status \in {"INCOMING", "AUTH_SUCCESS", "AUTH_FAILURE"} :
            Sets([Now EXCEPT !.bufC = Now.bufC \o inq[Client], !.status = status])
      BY <1>7, <2>1 DEF IncomingReads
    <3>2. PICK e : e = [Now EXCEPT !.bufC = Now.bufC \o inq[Client], !.status = status]
      OBVIOUS
    <3>3. Alike(Now, e)
      BY <1>1, <1>3, <3>2 DEF Alike, Connection
    <3>4. Sets(e) /\ UNCHANGED sock /\ pc' = "scan"
      BY <1>7, <2>1, <3>1, <3>2 DEF IncomingReads, NextEntry
    <3>. QED
      BY <1>1, <1>2, <3>3, <3>4, KeptOwns
  <2>2. CASE plan[Client].version # 5
    BY <1>5, <1>7, <2>2 DEF IncomingReads, NextEntry
  <2>. QED
    BY <2>1, <2>2
<1>8. CASE AuthSuccess
  <2>1. PICK e : e = [Now EXCEPT !.status = "SOCK_REQUEST", !.bufC = <<>>]
    OBVIOUS
  <2>2. Alike(Now, e)
    BY <1>1, <1>3, <2>1 DEF Alike, Connection
  <2>3. Sets(e) /\ UNCHANGED sock /\ pc' = "scan"
    BY <1>8, <2>1 DEF AuthSuccess, NextEntry
  <2>. QED
    BY <1>1, <1>2, <2>2, <2>3, KeptOwns
<1>9. CASE RequestReads
  <2>1. PICK read : read = [table EXCEPT ![i].bufC = @ \o inq[Client]]
    OBVIOUS
  <2>2. Now.status = "SOCK_REQUEST"
    BY <1>9 DEF RequestReads, At, Now
  <2>3. CASE plan[Client].cmd = "connect"
    <3>1. PICK e : e = [Now EXCEPT !.bufC = @ \o inq[Client]]
      OBVIOUS
    <3>2. read = [table EXCEPT ![i] = e]
      BY <2>1, <3>1 DEF Now
    <3>3. Sets(e) /\ UNCHANGED <<sock, i>>
      BY <1>9, <2>1, <2>3, <3>2 DEF RequestReads, Sets
    <3>4. Alike(Now, e) /\ e.status = "SOCK_REQUEST"
      BY <1>3, <2>2, <3>1 DEF Alike, Connection
    <3>. QED
      BY <1>1, <1>2, <3>3, <3>4, KeptOwns
  <2>4. CASE plan[Client].cmd # "connect"
    <3>1. Drop(read) /\ pc' = "parse after drop"
      BY <1>9, <2>1, <2>4 DEF RequestReads
    <3>2. DOMAIN read = 1..MAX_CONNECTIONS /\ \A k \in Live : k # i => read[k] = table[k]
      BY <1>4, <2>1
    <3>. QED
      BY <1>1, <1>2, <3>1, <3>2, EarlyDropOwns
  <2>. QED
    BY <2>3, <2>4
<1>. QED
  BY <1>6, <1>7, <1>8, <1>9

LEMMA OpensOwns ==
  ASSUME Types, OwnAll, i \in Live, Now.status # "FORWARDING", UNCHANGED <<backlog, end>>, pc' # "parse",
         AtWork' = IF Now.status = "RESOLVING" THEN AtWork \ {Now.R} ELSE AtWork,
         NEW peer \in {"open", "refused", NoSocket}, Opens(peer)
  PROVE  OwnAll'
<1>1. Now \in Connection /\ table \in Tables /\ Client \in Clients /\ DOMAIN table = 1..MAX_CONNECTIONS
  BY LiveIsTyped DEF Now, Client, Types, Tables
<1>2. Now.server = NoServer /\ NoServer \notin Opened
  BY LiveIsTyped DEF OwnAll, OwnServers, Now
<1>3. CASE peer = NoSocket
  <2>1. Drop(table) /\ UNCHANGED servers
    BY <1>3 DEF Opens
  <2>2. Opened' = Opened \ {Now.server} /\ \A s \in Opened' : servers'[s].client = servers[s].client
    BY <1>2, <2>1, OpenedBy DEF SameServers
  <2>. QED
    BY <1>1, <2>1, <2>2, DropOwns
<1>4. CASE peer # NoSocket
  <2>0. PICK e : e = [Now EXCEPT !.server = Len(servers) + 1, !.status = "FORWARDING",
                                 !.bufC = <<>>, !.bufS = <<>>]
    OBVIOUS
  <2>1. servers' = Append(servers, Server(Now, peer)) /\ Sets(e) /\ UNCHANGED sock
    BY <1>4, <2>0 DEF Opens
  <2>2. e.client = Client /\ e.status = "FORWARDING" /\ e.server = Len(servers) + 1
    BY <1>1, <2>0 DEF Connection, Client, Now
  <2>3. PICK new \in ServerSocket : new = Server(Now, peer)
    BY <1>1, <1>4, ServerIsTyped DEF Client, Now
  <2>4. new.open /\ new.client = Client
    BY <2>3 DEF Server, Client, Now
  <2>5. /\ e.server \notin Opened /\ Opened' = Opened \cup {e.server}
        /\ \A s \in Opened : servers'[s].client = servers[s].client
        /\ servers'[e.server].client = Client
    BY <2>1, <2>2, <2>3, <2>4, OpenedBy DEF Opened
  <2>6. OwnClients' /\ OwnServers' /\ OwnResolvers'
    BY <2>1, <2>2, <2>5, OpenOwns
  <2>7. Waiting' /\ Handled'
    BY <2>1 DEF OwnAll, Waiting, Handled
  <2>. QED
    BY <2>6, <2>7 DEF OwnAll
<1>. QED
  BY <1>3, <1>4

LEMMA AddressOwns ==
  ASSUME Types, OwnAll, pc = "parse", RequestAddress \/ RequestName \/ RequestOther
  PROVE  OwnAll'
<1>1. i \in Live /\ Now.status = "SOCK_REQUEST" /\ UNCHANGED <<backlog, end>> /\ pc' = "scan"
  BY DEF Types, Scans, OwnAll, Handled, Now, RequestAddress, RequestName, RequestOther, NextEntry, peers
<1>2. Now \in Connection /\ table \in Tables /\ DOMAIN table = 1..MAX_CONNECTIONS
  BY <1>1, LiveIsTyped DEF Now, Types, Tables
<1>3. CASE RequestAddress
  <2>1. (\E peer \in {"open", "refused", NoSocket} : Opens(peer)) /\ UNCHANGED resolvers
    BY <1>3 DEF RequestAddress
  <2>. QED
    BY <1>1, <2>1, OpensOwns, AtWorkBy
<1>4. CASE RequestName
  <2>1. UNCHANGED servers
    BY <1>4 DEF RequestName
  <2>2. CASE /\ resolvers' = Append(resolvers, "running")
             /\ Sets([Now EXCEPT !.status = "RESOLVING", !.R = Len(resolvers) + 1])
             /\ UNCHANGED <<sock, wq>>
    <3>1. PICK e : e = [Now EXCEPT !.status = "RESOLVING", !.R = Len(resolvers) + 1]
      OBVIOUS
    <3>2. /\ e.client = Client /\ e.server = Now.server /\ e.status = "RESOLVING"
          /\ e.R = Len(resolvers) + 1 /\ Sets(e)
      BY <1>2, <2>2, <3>1 DEF Connection, Client, Now
    <3>3. e.R \notin AtWork /\ AtWork' = AtWork \cup {e.R} /\ SameServers
      BY <2>1, <2>2, <3>2, AtWorkBy, OpenedBy
    <3>4. OwnClients' /\ OwnServers' /\ OwnResolvers'
      BY <1>1, <2>2, <3>2, <3>3, ResolveOwns
    <3>5. Waiting' /\ Handled'
      BY <1>1, <2>2 DEF OwnAll, Waiting, Handled
    <3>. QED
      BY <3>4, <3>5 DEF OwnAll
  <2>3. CASE /\ resolvers' \in {resolvers, Append(resolvers, "leaked")}
             /\ Answers(Client, <<Reply("refused")>>) /\ Drop(table)
    BY <1>1, <1>2, <2>1, <2>3, EarlyDropOwns, AtWorkBy
  <2>. QED
    BY <1>4, <2>2, <2>3 DEF RequestName
<1>5. CASE RequestOther
  <2>1. Drop(table) /\ UNCHANGED <<servers, resolvers>>
    BY <1>5 DEF RequestOther, far
  <2>. QED
    BY <1>1, <1>2, <2>1, EarlyDropOwns, AtWorkBy
<1>. QED
  BY <1>3, <1>4, <1>5

LEMMA ResolvingOwns ==
  ASSUME Types, OwnAll, ResolvingAnswered \/ ResolvingFails
  PROVE  OwnAll'
<1>1. i \in Live /\ Now.status = "RESOLVING" /\ UNCHANGED <<backlog, end>> /\ pc' = "scan" /\ Frees(Now.R)
  BY DEF Now, ResolvingAnswered, ResolvingFails, NextEntry, peers, At
<1>2. Now \in Connection /\ table \in Tables /\ DOMAIN table = 1..MAX_CONNECTIONS
  BY <1>1, LiveIsTyped DEF Now, Types, Tables
<1>3. Now.R \in DOMAIN resolvers
  BY <1>1 DEF OwnAll, OwnResolvers, Now, AtWork
<1>4. AtWork' = AtWork \ {Now.R}
  BY <1>1, <1>3, AtWorkBy
<1>5. CASE ResolvingAnswered
  BY <1>1, <1>4, <1>5, OpensOwns DEF ResolvingAnswered
<1>6. CASE ResolvingFails
  <2>1. Drop(table) /\ UNCHANGED servers
    BY <1>6 DEF ResolvingFails
  <2>2. Now.server = NoServer /\ NoServer \notin Opened
    BY <1>1, LiveIsTyped DEF OwnAll, OwnServers, Now
  <2>3. Opened' = Opened \ {Now.server} /\ \A s \in Opened' : servers'[s].client = servers[s].client
    BY <2>1, <2>2, OpenedBy DEF SameServers
  <2>. QED
    BY <1>1, <1>2, <1>4, <2>1, <2>3, DropOwns
<1>. QED
  BY <1>5, <1>6

LEMMA ForwardingOwns ==
  ASSUME Types, Serving, OwnAll, Forwarding
  PROVE  OwnAll'
<1>1. /\ i \in Live /\ i \in 1..MAX_CONNECTIONS /\ Now.status = "FORWARDING"
      /\ Now.server \in DOMAIN servers
      /\ servers' = [servers EXCEPT ![Now.server] = NewServer]
      /\ IF Ends(BufC, BufS) THEN Drop([table EXCEPT ![i] = NewEntry])
         ELSE Sets(NewEntry) /\ UNCHANGED sock
      /\ pc' = "scan" /\ UNCHANGED <<backlog, end, resolvers>>
  <2>1. servers \in Seq(ServerSocket)
    BY DEF Types, TypeOK, FarTypes
  <2>2. DOMAIN servers = 1..Len(servers)
    BY <2>1, LenProperties
  <2>. QED
    BY <2>2, ForwardingSteps DEF NextEntry, peers
<1>2. Now \in Connection /\ table \in Tables /\ DOMAIN table = 1..MAX_CONNECTIONS
  BY <1>1, LiveIsTyped DEF Now, Types, Tables
<1>3. servers[Now.server] \in ServerSocket /\ NewServer \in ServerSocket
  <2>1. servers \in Seq(ServerSocket)
    BY DEF Types, TypeOK, FarTypes
  <2>2. servers[Now.server] \in ServerSocket
    BY <1>1, <2>1, LenProperties
  <2>3. Client \in Clients
    BY <1>1, LiveIsTyped DEF Client
  <2>. QED
    BY <1>2, <2>2, <2>3, BuffersAreTyped
<1>4. NewServer.client = servers[Now.server].client /\ (NewServer.open <=> ~Ends(BufC, BufS))
  BY <1>3 DEF NewServer, ServerSocket
<1>5. PICK new \in ServerSocket : new = NewServer
  BY <1>3
<1>6. AtWork' = AtWork
  BY <1>1, AtWorkBy
<1>7. servers[Now.server].open
  BY <1>1 DEF OwnAll, OwnServers, Now, Opened
<1>8. CASE Ends(BufC, BufS)
  <2>1. Opened' = Opened \ {Now.server} /\ \A n \in Opened' : servers'[n].client = servers[n].client
    BY <1>1, <1>4, <1>5, <1>8, OpenedBy
  <2>2. PICK tab : tab = [table EXCEPT ![i] = NewEntry]
    OBVIOUS
  <2>3. Drop(tab) /\ DOMAIN tab = 1..MAX_CONNECTIONS /\ \A k \in Live : k # i => tab[k] = table[k]
    BY <1>1, <1>2, <1>8, <2>2
  <2>. QED
    BY <1>1, <1>6, <2>1, <2>3, DropOwns
<1>9. CASE ~Ends(BufC, BufS)
  <2>1. SameServers
    BY <1>1, <1>3, <1>4, <1>5, <1>7, <1>9, OpenedBy DEF ServerSocket
  <2>2. PICK e : e = NewEntry
    OBVIOUS
  <2>3. Sets(e) /\ UNCHANGED sock /\ Alike(Now, e)
    BY <1>1, <1>2, <1>9, <2>2 DEF NewEntry, Alike, Connection
  <2>. QED
    BY <1>1, <1>6, <2>1, <2>3, KeptOwns
<1>. QED
  BY <1>8, <1>9

LEMMA AroundOwns ==
  ASSUME Types, OwnAll, Around
  PROVE  OwnAll'
<1>1. UNCHANGED <<table, count, sock, pc, i>>
  BY DEF Around, ClientMoves, Connects, Sends, Finishes, Resets, Reads, ServerSends,
       ServerFinishes, ServerReads, ServerMoves, TimePasses, conns, proxy, kernel
<1>2. \A k \in Live : Alike(table[k], table'[k])
  BY <1>1 DEF Alike
<1>3. CASE \E c \in Clients : ClientMoves(c) \/ Reads(c)
  <2>1. PICK c \in Clients : ClientMoves(c) \/ Reads(c)
    BY <1>3
  <2>2. UNCHANGED <<servers, resolvers>>
    BY <2>1 DEF ClientMoves, Connects, Sends, Finishes, Resets, Reads, far
  <2>3. OwnClients' /\ OwnServers' /\ OwnResolvers'
    BY <1>1, <1>2, <2>2, KeepOwns, OpenedBy, AtWorkBy
  <2>4. Waiting'
    <3>1. /\ backlog \in Seq(Clients) /\ end \in [Clients -> {"away", "open", "fin", "reset"}] /\ Waiting
      BY DEF Types, TypeOK, KernelTypes, PeersTypes, OwnAll
    <3>2. CASE Connects(c)
      <4>1. /\ DOMAIN backlog' = DOMAIN backlog \cup {Len(backlog) + 1} /\ Len(backlog) + 1 \notin DOMAIN backlog
            /\ backlog'[Len(backlog) + 1] = c /\ \A n \in DOMAIN backlog : backlog'[n] = backlog[n]
        <5>1. backlog' = Append(backlog, c)
          BY <3>2 DEF Connects
        <5>2. DOMAIN backlog = 1..Len(backlog) /\ Len(backlog) \in Nat
          BY <3>1, LenProperties
        <5>3. DOMAIN backlog' = 1..(Len(backlog) + 1)
          BY <3>1, <5>1, AppendProperties, LenProperties
        <5>4. backlog'[Len(backlog) + 1] = c /\ \A n \in 1..Len(backlog) : backlog'[n] = backlog[n]
          BY <3>1, <5>1, AppendProperties
        <5>. QED
          BY <5>2, <5>3, <5>4
      <4>2. end[c] = "away" /\ end' = [end EXCEPT ![c] = "open"] /\ \A n \in DOMAIN backlog : backlog[n] # c
        BY <3>1, <3>2 DEF Connects, Waiting
      <4>. QED
        BY <1>1, <3>1, <4>1, <4>2 DEF Waiting
    <3>3. CASE ~Connects(c)
      <4>1. UNCHANGED backlog /\ \A d \in Clients : end'[d] = "away" <=> end[d] = "away"
        BY <2>1, <3>1, <3>3 DEF ClientMoves, Sends, Finishes, Resets, Reads, kernel, peers
      <4>2. \A n \in DOMAIN backlog : backlog[n] \in Clients
        BY <3>1
      <4>. QED
        BY <1>1, <3>1, <4>1, <4>2 DEF Waiting
    <3>. QED
      BY <3>2, <3>3
  <2>. QED
    BY <1>1, <2>3, <2>4 DEF OwnAll, Handled
<1>4. CASE \E s \in DOMAIN servers : ServerSends(s) \/ ServerFinishes(s) \/ ServerReads(s)
  <2>1. PICK s \in DOMAIN servers : ServerSends(s) \/ ServerFinishes(s) \/ ServerReads(s)
    BY <1>4
  <2>2. UNCHANGED <<backlog, end, resolvers>>
    BY <2>1 DEF ServerSends, ServerFinishes, ServerReads, ServerMoves, kernel, peers
  <2>3. PICK new : /\ servers' = [servers EXCEPT ![s] = new]
                   /\ new.client = servers[s].client /\ new.open = servers[s].open
    <3>1. servers[s] \in ServerSocket
      BY DEF Types, TypeOK, FarTypes
    <3>. QED
      BY <2>1, <3>1 DEF ServerSends, ServerFinishes, ServerReads, ServerMoves, ServerSocket
  <2>4. SameServers
    BY <2>3 DEF SameServers, Opened
  <2>5. OwnClients' /\ OwnServers' /\ OwnResolvers'
    BY <1>1, <1>2, <2>2, <2>4, KeepOwns, AtWorkBy
  <2>. QED
    BY <1>1, <2>2, <2>5 DEF OwnAll, Waiting, Handled
<1>5. CASE \E r \in DOMAIN resolvers : TimePasses(r)
  <2>1. UNCHANGED <<backlog, end, servers>> /\ AtWork' = AtWork
    BY <1>5, AtWorkBy DEF TimePasses, kernel, peers
  <2>2. OwnClients' /\ OwnServers' /\ OwnResolvers'
    BY <1>1, <1>2, <2>1, KeepOwns, OpenedBy
  <2>. QED
    BY <1>1, <2>1, <2>2 DEF OwnAll, Waiting, Handled
<1>. QED
  BY <1>3, <1>4, <1>5 DEF Around

LEMMA Unstrayed ==
  ASSUME [Next]_vars, ~stray'
  PROVE  ~stray
BY DEF Next, Proxy, Around, Poll, Idle, IncomingHangup, IncomingEnds, IncomingReads, AuthFailure,
       AuthSuccess, RequestEnds, RequestReads, RequestShort, RequestAddress, RequestName, RequestOther,
       ResolvingAnswered, ResolvingFails, ResolvingWaits, Forwarding, KilledReading, KilledParsing,
       KilledWriting, KilledForwarding, Accept, AcceptNone, Skips, Dies, Strays, vars,
       ClientMoves, Connects, Sends, Finishes, Resets, Reads, ServerSends, ServerFinishes, ServerReads,
       ServerMoves, TimePasses

LEMMA OwnNext ==
  ASSUME Types, Serving, Own, [Next]_vars
  PROVE  Own'
<1>. SUFFICES ASSUME ~stray' PROVE OwnAll'
  BY DEF Own
<1>1. ~stray
  BY Unstrayed
<1>2. OwnAll
  BY <1>1 DEF Own
<1>3. CASE \/ Poll \/ Idle \/ RequestShort \/ ResolvingWaits \/ AcceptNone \/ UNCHANGED vars
           \/ KilledReading \/ KilledParsing \/ KilledWriting \/ KilledForwarding
  <2>1. UNCHANGED <<conns, kernel, far, peers>>
    BY <1>3 DEF Poll, Idle, RequestShort, ResolvingWaits, AcceptNone, vars,
       KilledReading, KilledParsing, KilledWriting, KilledForwarding, Dies, Skips
  <2>2. pc' # "parse" \/ UNCHANGED <<pc, i>>
    BY <1>3 DEF Poll, Idle, RequestShort, ResolvingWaits, AcceptNone, vars, proxy, NextEntry, Again,
       KilledReading, KilledParsing, KilledWriting, KilledForwarding, Dies, Skips
  <2>. QED
    BY <1>2, <2>1, <2>2, SkipsOwn
<1>4. CASE \/ IncomingHangup \/ IncomingEnds \/ IncomingReads \/ AuthFailure \/ AuthSuccess
           \/ RequestEnds \/ RequestReads
  BY <1>2, <1>4, GreetingOwns
<1>5. CASE RequestAddress \/ RequestName \/ RequestOther
  <2>1. pc = "parse"
    BY <1>5 DEF RequestAddress, RequestName, RequestOther, Parses, Strays
  <2>. QED
    BY <1>2, <1>5, <2>1, AddressOwns
<1>6. CASE ResolvingAnswered \/ ResolvingFails
  BY <1>2, <1>6, ResolvingOwns
<1>7. CASE Forwarding
  BY <1>2, <1>7, ForwardingOwns
<1>8. CASE Accept
  BY <1>2, <1>8, AcceptOwns
<1>9. CASE Around
  BY <1>2, <1>9, AroundOwns
<1>. QED
  BY <1>3, <1>4, <1>5, <1>6, <1>7, <1>8, <1>9 DEF Next, Proxy

LEMMA OwnInit == Init => Own
<1>. SUFFICES ASSUME Init PROVE OwnAll
  BY DEF Own
<1>1. Live = {} /\ Opened = {} /\ AtWork = {} /\ backlog = <<>> /\ pc = "poll"
  BY DEF Init, Live, Opened, AtWork
<1>2. \A c \in Clients : sock[c] = "none"
  BY DEF Init
<1>. QED
  BY <1>1, <1>2 DEF OwnAll, OwnClients, OwnServers, OwnResolvers, Waiting, Handled

LEMMA OwnersAreUnique ==
  ASSUME Types, Own
  PROVE  EachHasOneEntry
<1>. SUFFICES ASSUME ~stray PROVE EachHasOneEntry
  BY DEF EachHasOneEntry
<1>1. OwnClients /\ OwnServers /\ OwnResolvers /\ NoServer \notin Opened
  BY LiveIsTyped DEF Own, OwnAll
<1>2. ASSUME NEW c \in Clients, sock[c] = "open" PROVE Owns(LAMBDA e : e.client = c)
  <2>1. PICK k \in Live : table[k].client = c
    BY <1>1, <1>2 DEF OwnClients
  <2>2. {l \in Live : table[l].client = c} = {k}
    BY <1>1, <2>1 DEF OwnClients
  <2>. QED
    BY <2>2, FS_Singleton DEF Owns
<1>3. ASSUME NEW s \in DOMAIN servers, servers[s].open PROVE Owns(LAMBDA e : e.server = s)
  <2>1. s \in Opened
    BY <1>3 DEF Opened
  <2>2. PICK k \in Live : table[k].server = s
    BY <1>1, <2>1 DEF OwnServers
  <2>3. {l \in Live : table[l].server = s} = {k}
    <3>1. ASSUME NEW l \in Live, table[l].server = s PROVE l = k
      BY <1>1, <2>1, <2>2, <3>1 DEF OwnServers, OwnClients
    <3>. QED
      BY <2>2, <3>1
  <2>. QED
    BY <2>3, FS_Singleton DEF Owns
<1>4. ASSUME NEW r \in DOMAIN resolvers, resolvers[r] \in {"running", "late"}
      PROVE  Owns(LAMBDA e : e.R = r /\ e.status = "RESOLVING")
  <2>1. r \in AtWork
    BY <1>4 DEF AtWork
  <2>2. PICK k \in Live : table[k].R = r /\ table[k].status = "RESOLVING"
    BY <1>1, <2>1 DEF OwnResolvers
  <2>3. {l \in Live : table[l].R = r /\ table[l].status = "RESOLVING"} = {k}
    BY <1>1, <2>2 DEF OwnResolvers
  <2>. QED
    BY <2>3, FS_Singleton DEF Owns
<1>5. \A k \in Live : sock[table[k].client] = "open"
  BY <1>1 DEF OwnClients
<1>. QED
  BY <1>2, <1>3, <1>4, <1>5 DEF EachHasOneEntry

(* As long as no handler has gone on with an entry that is not its own, the *)
(* table holds each open client, each open server and each resolver at work *)
(* exactly once, however often dropConnection() has moved the last entry    *)
(* into a freed place in the midst of the loop.                             *)
THEOREM EachIsOwnedOnce == Spec => []EachHasOneEntry
<1>1. Init => Types /\ Serving /\ Own
  <2>1. Init => Types
    BY InitTypes
  <2>2. Init => Serving
    BY DEF Init, Serving, Entry
  <2>. QED
    BY <2>1, <2>2, OwnInit
<1>2. Types /\ Serving /\ Own /\ [Next]_vars => (Types /\ Serving /\ Own)'
  BY TypesNext, ServingNext, OwnNext
<1>3. Types /\ Own => EachHasOneEntry
  BY OwnersAreUnique
<1>. QED
  BY <1>1, <1>2, <1>3, PTL DEF Spec

-----------------------------------------------------------------------------
(* The bytes on their way.                                                  *)
LEMMA ConcatIs ==
  ASSUME NEW S, NEW s \in Seq(S), NEW t \in Seq(S), NEW u \in Seq(S),
         Len(u) = Len(s) + Len(t),
         \A x \in 1..Len(s) : u[x] = s[x], \A y \in 1..Len(t) : u[Len(s) + y] = t[y]
  PROVE  u = s \o t
<1>1. /\ Len(s) \in Nat /\ Len(t) \in Nat /\ s \o t \in Seq(S) /\ Len(s \o t) = Len(s) + Len(t)
      /\ \A x \in 1..Len(s) + Len(t) : (s \o t)[x] = IF x <= Len(s) THEN s[x] ELSE t[x - Len(s)]
  BY ConcatProperties, LenProperties
<1>2. ASSUME NEW x \in 1..Len(u) PROVE u[x] = (s \o t)[x]
  <2>1. CASE x <= Len(s)
    BY <1>1, <2>1
  <2>2. CASE ~(x <= Len(s))
    <3>1. PICK y \in 1..Len(t) : y = x - Len(s)
      BY <1>1, <2>2
    <3>2. x = Len(s) + y
      BY <1>1, <3>1
    <3>. QED
      BY <1>1, <2>2, <3>1, <3>2
  <2>. QED
    BY <2>1, <2>2
<1>. QED
  BY <1>1, <1>2, SeqEqual

(* The pieces after a up to b.                                              *)
Pieces(a, b) == [n \in 1..(b - a) |-> a + n]

LEMMA PiecesProperties ==
  ASSUME NEW a \in 0..(Handshake + MaxData), NEW b \in 0..(Handshake + MaxData), a <= b
  PROVE  /\ Pieces(a, b) \in Seq(Piece) /\ Len(Pieces(a, b)) = b - a
         /\ \A n \in 1..(b - a) : Pieces(a, b)[n] = a + n
<1>1. Handshake + MaxData \in Nat /\ b - a \in Nat
  BY Bounds DEF Handshake
<1>2. \A n \in 1..(b - a) : a + n \in Piece
  BY <1>1 DEF Piece
<1>3. Pieces(a, b) \in [1..(b - a) -> Piece]
  BY <1>2 DEF Pieces
<1>4. Pieces(a, b) \in Seq(Piece) /\ Len(Pieces(a, b)) = b - a
  BY <1>1, <1>3
<1>. QED
  BY <1>1, <1>4 DEF Pieces

LEMMA PiecesGrow ==
  ASSUME NEW a \in 0..(Handshake + MaxData), NEW b \in 0..(Handshake + MaxData),
         NEW d \in 0..(Handshake + MaxData), a <= b, b <= d
  PROVE  Pieces(a, b) \o Pieces(b, d) = Pieces(a, d)
<1>0. a \in Int /\ b \in Int /\ d \in Int /\ a <= d
  BY Bounds DEF Handshake
<1>1. /\ Pieces(a, b) \in Seq(Piece) /\ Len(Pieces(a, b)) = b - a
      /\ \A n \in 1..(b - a) : Pieces(a, b)[n] = a + n
  BY PiecesProperties
<1>2. /\ Pieces(b, d) \in Seq(Piece) /\ Len(Pieces(b, d)) = d - b
      /\ \A n \in 1..(d - b) : Pieces(b, d)[n] = b + n
  BY PiecesProperties
<1>3. /\ Pieces(a, d) \in Seq(Piece) /\ Len(Pieces(a, d)) = d - a
      /\ \A n \in 1..(d - a) : Pieces(a, d)[n] = a + n
  BY <1>0, PiecesProperties
<1>4. \A x \in 1..(b - a) : Pieces(a, d)[x] = Pieces(a, b)[x]
  BY <1>0, <1>1, <1>3
<1>5. ASSUME NEW y \in 1..(d - b) PROVE Pieces(a, d)[b - a + y] = Pieces(b, d)[y]
  <2>1. PICK x \in 1..(d - a) : x = b - a + y
    BY <1>0
  <2>2. a + x = b + y
    BY <1>0, <2>1
  <2>. QED
    BY <1>2, <1>3, <2>1, <2>2
<1>6. PICK s \in Seq(Piece), t \in Seq(Piece), u \in Seq(Piece) :
        s = Pieces(a, b) /\ t = Pieces(b, d) /\ u = Pieces(a, d)
  BY <1>1, <1>2, <1>3
<1>7. Len(s) = b - a /\ Len(t) = d - b /\ Len(u) = d - a
  BY <1>1, <1>2, <1>3, <1>6
<1>8. Len(u) = Len(s) + Len(t)
  BY <1>0, <1>7
<1>9. (\A x \in 1..Len(s) : u[x] = s[x]) /\ \A y \in 1..Len(t) : u[Len(s) + y] = t[y]
  BY <1>4, <1>5, <1>6, <1>7
<1>. QED
  BY <1>6, <1>8, <1>9, ConcatIs

LEMMA NoPieces ==
  /\ \A a \in Int : Pieces(a, a) = <<>>
  /\ Pieces(0, 2) = <<1, 2>>
<1>1. ASSUME NEW a \in Int PROVE Pieces(a, a) = <<>>
  <2>1. a - a = 0
    OBVIOUS
  <2>. QED
    BY <2>1 DEF Pieces
<1>2. Pieces(0, 2) = <<1, 2>>
  <2>1. Pieces(0, 2) = [n \in 1..2 |-> n]
    BY DEF Pieces
  <2>2. [n \in 1..2 |-> n] \in Seq(Nat) /\ <<1, 2>> \in Seq(Nat) /\ Len([n \in 1..2 |-> n]) = 2
    BY IsASeq
  <2>. QED
    BY <2>1, <2>2
<1>. QED
  BY <1>1, <1>2

(* Who has read the last piece that may be sent has read them all.          *)
LEMMA AllRead ==
  ASSUME NEW buf \in Seq(Piece), NEW q \in Seq(Piece),
         NEW a \in 0..Handshake, NEW m \in 0..Handshake, NEW n \in 0..Handshake, a <= n, n <= m,
         buf \o q = Pieces(a, n), Has(buf, m)
  PROVE  n = m /\ q = <<>>
<1>1. Len(buf) \in Nat /\ Len(q) \in Nat /\ Len(buf \o q) = Len(buf) + Len(q)
      /\ \A x \in 1..Len(buf) + Len(q) : (buf \o q)[x] = IF x <= Len(buf) THEN buf[x] ELSE q[x - Len(buf)]
  BY ConcatProperties, LenProperties
<1>2. Len(Pieces(a, n)) = n - a /\ \A x \in 1..(n - a) : Pieces(a, n)[x] = a + x
  <2>1. a \in 0..(Handshake + MaxData) /\ n \in 0..(Handshake + MaxData)
    BY Bounds DEF Handshake
  <2>. QED
    BY <2>1, PiecesProperties
<1>3. PICK x \in 1..Len(buf) : buf[x] = m
  BY LenProperties DEF Has
<1>4. x \in 1..(n - a) /\ a + x = m
  BY <1>1, <1>2, <1>3 DEF Handshake
<1>5. n = m /\ Len(q) = 0
  BY <1>1, <1>2, <1>3, <1>4 DEF Handshake
<1>. QED
  BY <1>5, EmptySeq

(* Nothing of what has been sent comes after the request.                   *)
LEMMA NoneBeyond ==
  ASSUME NEW buf \in Seq(Piece), NEW q \in Seq(Piece),
         NEW a \in 0..Handshake, NEW n \in 0..Handshake, a <= n, buf \o q = Pieces(a, n)
  PROVE  \A x \in DOMAIN buf : buf[x] # Handshake + 1
<1>1. Len(buf) \in Nat /\ Len(q) \in Nat /\ Len(buf \o q) = Len(buf) + Len(q)
      /\ DOMAIN buf = 1..Len(buf)
      /\ \A x \in 1..Len(buf) + Len(q) : (buf \o q)[x] = IF x <= Len(buf) THEN buf[x] ELSE q[x - Len(buf)]
  BY ConcatProperties, LenProperties
<1>2. Len(Pieces(a, n)) = n - a /\ \A x \in 1..(n - a) : Pieces(a, n)[x] = a + x
  <2>1. a \in 0..(Handshake + MaxData) /\ n \in 0..(Handshake + MaxData)
    BY Bounds DEF Handshake
  <2>. QED
    BY <2>1, PiecesProperties
<1>3. \A x \in 1..Len(buf) : buf[x] = a + x /\ x <= n - a
  BY <1>1, <1>2 DEF Handshake
<1>. QED
  BY <1>1, <1>3 DEF Handshake

(* What is left to read begins after the last piece that has been read.     *)
Follows(q, m, n) == q = Pieces(m, n)

LEMMA WhatIsLeft ==
  ASSUME NEW buf \in Seq(Piece), NEW q \in Seq(Piece),
         NEW a \in 0..Handshake, NEW m \in 0..Handshake, NEW n \in 0..Handshake, a <= n,
         NEW l, l = m + 1, buf \o q = Pieces(a, n), Has(buf, m), ~Has(buf, l)
  PROVE  m <= n /\ Follows(q, m, n)
<1>1. Len(buf) \in Nat /\ Len(q) \in Nat /\ Len(buf \o q) = Len(buf) + Len(q)
      /\ \A x \in 1..Len(buf) + Len(q) : (buf \o q)[x] = IF x <= Len(buf) THEN buf[x] ELSE q[x - Len(buf)]
  BY ConcatProperties, LenProperties
<1>2. /\ a \in Int /\ m \in Int /\ n \in Int
      /\ a \in 0..(Handshake + MaxData) /\ n \in 0..(Handshake + MaxData) /\ m \in 0..(Handshake + MaxData)
  BY Bounds DEF Handshake
<1>3. Len(Pieces(a, n)) = n - a /\ \A x \in 1..(n - a) : Pieces(a, n)[x] = a + x
  BY <1>2, PiecesProperties
<1>4. Len(buf) + Len(q) = n - a
  BY <1>1, <1>3
<1>5. \A x \in 1..Len(buf) : buf[x] = a + x
  BY <1>1, <1>3, <1>4
<1>6. PICK x \in 1..Len(buf) : buf[x] = m
  BY LenProperties DEF Has
<1>7. a + x = m /\ x \in Int
  BY <1>5, <1>6
<1>8. Len(buf) = x
  <2>1. SUFFICES ASSUME x + 1 \in 1..Len(buf) PROVE FALSE
    BY <1>1, <1>6
  <2>2. buf[x + 1] = m + 1
    <3>1. buf[x + 1] = a + (x + 1)
      BY <1>5, <2>1
    <3>. QED
      BY <1>2, <1>7, <3>1
  <2>. QED
    BY <2>1, <2>2, LenProperties DEF Has
<1>9. m <= n /\ Len(q) = n - m
  <2>1. PICK lq \in Nat : lq = Len(q)
    BY <1>1
  <2>2. x + lq = n - a
    BY <1>4, <1>8, <2>1, Zenon
  <2>3. m <= n /\ lq = n - m
    BY <1>2, <1>7, <2>2
  <2>. QED
    BY <2>1, <2>3, Zenon
<1>10. Pieces(m, n) \in Seq(Piece) /\ Len(Pieces(m, n)) = n - m
       /\ \A y \in 1..(n - m) : Pieces(m, n)[y] = m + y
  BY <1>2, <1>9, PiecesProperties
<1>11. ASSUME NEW y \in 1..(n - m) PROVE q[y] = m + y
  <2>1. x + y \in 1..(Len(buf) + Len(q)) /\ ~(x + y <= Len(buf)) /\ (x + y) - Len(buf) = y
    BY <1>1, <1>2, <1>6, <1>8, <1>9, <1>11
  <2>2. (buf \o q)[x + y] = q[y]
    BY <1>1, <2>1
  <2>3. (buf \o q)[x + y] = a + (x + y)
    BY <1>3, <1>4, <2>1
  <2>. QED
    BY <1>2, <1>7, <2>2, <2>3
<1>12. q = Pieces(m, n)
  BY <1>9, <1>10, <1>11, SeqEqual
<1>. QED
  BY <1>9, <1>12 DEF Follows

LEMMA DatasProperties ==
  /\ Datas(<<>>) = <<>>
  /\ \A s \in Seq(1..MaxData) : Datas(s) \in Seq(Message) /\ Len(Datas(s)) = Len(s)
                                /\ \A n \in 1..Len(s) : Datas(s)[n] = Data(s[n])
<1>1. Datas(<<>>) = <<>>
  BY DEF Datas
<1>2. ASSUME NEW s \in Seq(1..MaxData)
      PROVE  Datas(s) \in Seq(Message) /\ Len(Datas(s)) = Len(s)
             /\ \A n \in 1..Len(s) : Datas(s)[n] = Data(s[n])
  <2>1. s \in [1..Len(s) -> 1..MaxData] /\ Len(s) \in Nat /\ DOMAIN s = 1..Len(s)
    BY LenProperties
  <2>2. \A x \in 1..Len(s) : Data(s[x]) \in Message
    BY <2>1, Bounds DEF Data, Message
  <2>3. Datas(s) \in Seq(Message)
    BY <2>1, <2>2, IsASeq DEF Datas
  <2>. QED
    BY <2>1, <2>3 DEF Datas
<1>. QED
  BY <1>1, <1>2

LEMMA DatasConcat ==
  ASSUME NEW s \in Seq(1..MaxData), NEW t \in Seq(1..MaxData)
  PROVE  Datas(s \o t) = Datas(s) \o Datas(t)
<1>1. /\ s \o t \in Seq(1..MaxData) /\ Len(s \o t) = Len(s) + Len(t)
      /\ Len(s) \in Nat /\ Len(t) \in Nat
      /\ \A n \in 1..(Len(s) + Len(t)) : (s \o t)[n] = IF n <= Len(s) THEN s[n] ELSE t[n - Len(s)]
  BY ConcatProperties, LenProperties
<1>2. /\ Datas(s) \in Seq(Message) /\ Len(Datas(s)) = Len(s)
      /\ Datas(t) \in Seq(Message) /\ Len(Datas(t)) = Len(t)
      /\ Datas(s \o t) \in Seq(Message) /\ Len(Datas(s \o t)) = Len(s) + Len(t)
  BY <1>1, DatasProperties
<1>3. \A x \in 1..Len(s) : Datas(s \o t)[x] = Datas(s)[x]
  <2>1. ASSUME NEW x \in 1..Len(s) PROVE Datas(s \o t)[x] = Datas(s)[x]
    <3>1. x \in 1..(Len(s) + Len(t)) /\ x <= Len(s)
      BY <1>1
    <3>. QED
      BY <1>1, <3>1, DatasProperties
  <2>. QED
    BY <2>1
<1>4. ASSUME NEW y \in 1..Len(t) PROVE Datas(s \o t)[Len(s) + y] = Datas(t)[y]
  <2>1. PICK x \in 1..(Len(s) + Len(t)) : x = Len(s) + y /\ ~(x <= Len(s)) /\ x - Len(s) = y
    BY <1>1
  <2>2. Datas(s \o t)[x] = Data((s \o t)[x]) /\ Datas(t)[y] = Data(t[y])
    BY <1>1, DatasProperties
  <2>. QED
    BY <1>1, <2>1, <2>2
<1>5. PICK u \in Seq(Message), v \in Seq(Message), w \in Seq(Message) :
        u = Datas(s) /\ v = Datas(t) /\ w = Datas(s \o t)
  BY <1>2
<1>6. Len(u) = Len(s) /\ Len(v) = Len(t) /\ Len(w) = Len(u) + Len(v)
  <2>1. Len(u) = Len(s) /\ Len(v) = Len(t)
    BY <1>2, <1>5
  <2>2. Len(w) = Len(s) + Len(t)
    BY <1>2, <1>5
  <2>. QED
    BY <2>1, <2>2
<1>7. \A x \in 1..Len(u) : w[x] = u[x]
  BY <1>3, <1>5, <1>6
<1>8. ASSUME NEW y \in 1..Len(v) PROVE w[Len(u) + y] = v[y]
  <2>1. y \in 1..Len(t) /\ Len(u) = Len(s)
    BY <1>6
  <2>2. Datas(s \o t)[Len(s) + y] = Datas(t)[y]
    BY <1>4, <2>1
  <2>. QED
    BY <1>5, <2>1, <2>2, Zenon
<1>9. w = u \o v
  <2>1. Len(w) = Len(u) + Len(v)
    BY <1>6
  <2>. QED
    BY <1>7, <1>8, <2>1, ConcatIs
<1>. QED
  BY <1>5, <1>9

(* The first pieces of data of a server.                                    *)
Firsts(k) == [n \in 1..k |-> Data(n)]

LEMMA FirstsProperties ==
  ASSUME NEW k \in 0..MaxData
  PROVE  Firsts(k) \in Seq(Message) /\ Len(Firsts(k)) = k /\ \A n \in 1..k : Firsts(k)[n] = Data(n)
<1>1. k \in Nat /\ \A n \in 1..k : Data(n) \in Message
  BY Bounds DEF Data, Message
<1>2. Firsts(k) \in [1..k -> Message]
  BY <1>1 DEF Firsts
<1>. QED
  BY <1>1, <1>2 DEF Firsts

LEMMA FirstsGrow ==
  ASSUME NEW k \in 0..MaxData, NEW l \in 0..MaxData, l = k + 1
  PROVE  Firsts(l) = Firsts(k) \o Datas(<<l>>)
<1>1. l \in 1..MaxData /\ k \in Nat
  BY Bounds
<1>2. <<l>> \in Seq(1..MaxData) /\ Len(<<l>>) = 1 /\ <<l>>[1] = l
  BY <1>1
<1>3. PICK v \in Seq(Message) : v = Datas(<<l>>) /\ Len(v) = 1 /\ v[1] = Data(l)
  <2>1. PICK one \in Seq(1..MaxData) : one = <<l>> /\ Len(one) = 1 /\ one[1] = l
    BY <1>2
  <2>2. 1 \in 1..Len(one)
    BY <2>1
  <2>3. Datas(one) \in Seq(Message) /\ Len(Datas(one)) = Len(one) /\ Datas(one)[1] = Data(one[1])
    BY <2>2, DatasProperties
  <2>. QED
    BY <2>1, <2>3
<1>4. PICK u \in Seq(Message) : u = Firsts(k) /\ Len(u) = k /\ \A n \in 1..k : u[n] = Data(n)
  BY FirstsProperties
<1>5. PICK w \in Seq(Message) : w = Firsts(l) /\ Len(w) = l /\ \A n \in 1..l : w[n] = Data(n)
  BY FirstsProperties
<1>6. Len(w) = Len(u) + Len(v)
  BY <1>3, <1>4, <1>5
<1>7. \A n \in 1..Len(u) : w[n] = u[n]
  BY <1>1, <1>4, <1>5
<1>8. \A n \in 1..Len(v) : w[Len(u) + n] = v[n]
  <2>1. ASSUME NEW n \in 1..Len(v) PROVE w[Len(u) + n] = v[n]
    <3>0. Len(v) = 1
      BY <1>3
    <3>1. n = 1
      BY <3>0
    <3>2. Len(u) + n = l
      BY <1>4, <3>1
    <3>3. l \in 1..l
      BY <1>1
    <3>. QED
      BY <1>3, <1>5, <3>1, <3>2, <3>3
  <2>. QED
    BY <2>1
<1>9. w = u \o v
  BY <1>6, <1>7, <1>8, ConcatIs
<1>. QED
  BY <1>2, <1>3, <1>4, <1>5, <1>9

(* A message that is read moves from one queue to the other.                *)
LEMMA ReadMoves ==
  ASSUME NEW g \in Seq(Message), NEW w \in Seq(Message), w # <<>>
  PROVE  Append(g, Head(w)) \o Tail(w) = g \o w
<1>1. Head(w) \in Message /\ Tail(w) \in Seq(Message) /\ <<Head(w)>> \in Seq(Message)
  BY HeadTailProperties
<1>2. Append(g, Head(w)) = g \o <<Head(w)>>
  BY <1>1, AppendIsConcat
<1>3. <<Head(w)>> \o Tail(w) = w
  <2>1. Len(w) \in Nat /\ Len(w) >= 1 /\ Len(Tail(w)) = Len(w) - 1 /\ Head(w) = w[1]
        /\ \A n \in 1..Len(Tail(w)) : Tail(w)[n] = w[n + 1]
    BY HeadTailProperties, LenProperties
  <2>2. /\ <<Head(w)>> \o Tail(w) \in Seq(Message) /\ Len(<<Head(w)>> \o Tail(w)) = Len(w)
        /\ \A n \in 1..Len(w) : (<<Head(w)>> \o Tail(w))[n] = IF n <= 1 THEN <<Head(w)>>[n] ELSE Tail(w)[n - 1]
    BY <1>1, <2>1, ConcatProperties
  <2>3. ASSUME NEW n \in 1..Len(w) PROVE (<<Head(w)>> \o Tail(w))[n] = w[n]
    <3>1. CASE n = 1
      BY <2>1, <2>2, <3>1
    <3>2. CASE n # 1
      <4>1. PICK m \in 1..Len(Tail(w)) : m = n - 1
        BY <2>1, <3>2
      <4>. QED
        BY <2>1, <2>2, <3>2, <4>1
    <3>. QED
      BY <3>1, <3>2
  <2>. QED
    BY <2>2, <2>3, SeqEqual
<1>. QED
  BY <1>1, <1>2, <1>3, ConcatAssociative

LEMMA Regroup ==
  ASSUME NEW S, NEW x \in Seq(S), NEW h \in Seq(S), NEW q \in Seq(S),
         NEW g \in Seq(S), NEW r \in Seq(S)
  PROVE  h \o q = g \o r => (x \o h) \o q = (x \o g) \o r
<1>1. (x \o h) \o q = x \o (h \o q)
  BY SMTT(30), ConcatAssociative
<1>2. (x \o g) \o r = x \o (g \o r)
  BY SMTT(30), ConcatAssociative
<1>. QED
  BY <1>1, <1>2

LEMMA HeldIsTyped ==
  /\ EOF \notin Seq(Piece) /\ EOF \notin Seq(1..MaxData) /\ EOF # <<>> /\ Held(EOF) = <<>>
  /\ \A b \in Seq(Piece) \cup {EOF} : Held(b) \in Seq(Piece) /\ (b # EOF => Held(b) = b)
  /\ \A b \in Seq(1..MaxData) \cup {EOF} : Held(b) \in Seq(1..MaxData) /\ (b # EOF => Held(b) = b)
<1>1. \A b \in Seq(Piece) : b # EOF
  <2>1. ASSUME NEW b \in Seq(Piece), b = EOF PROVE FALSE
    <3>1. Len(b) = 1 /\ b[1] = 0
      BY <2>1 DEF EOF
    <3>2. b[1] \in Piece
      BY <3>1
    <3>. QED
      BY <3>1, <3>2 DEF Piece
  <2>. QED
    BY <2>1
<1>2. \A b \in Seq(1..MaxData) : b # EOF
  <2>1. ASSUME NEW b \in Seq(1..MaxData), b = EOF PROVE FALSE
    <3>1. Len(b) = 1 /\ b[1] = 0
      BY <2>1 DEF EOF
    <3>2. 1 \in 1..Len(b)
      BY <3>1
    <3>3. b[1] \in 1..MaxData
      BY <3>2, LenProperties
    <3>. QED
      BY <3>1, <3>3
  <2>. QED
    BY <2>1
<1>3. EOF # <<>>
  BY DEF EOF
<1>. QED
  BY <1>1, <1>2, <1>3, EmptySeq DEF Held

-----------------------------------------------------------------------------
(* What an entry holds of what its client has sent: q is what is not yet    *)
(* read of the n pieces it has sent, said what it has been or will be told, *)
(* en its end of the connection and s its server.                           *)
Greets(e, q, n, said) ==
  /\ e.status \in {"INCOMING", "AUTH_SUCCESS", "AUTH_FAILURE"} => said = <<>> /\ n <= 2
  /\ e.status = "INCOMING" => e.bufC \o q = Pieces(0, n)
  /\ e.status = "AUTH_SUCCESS" => n = 2 /\ q = <<>>

Asks(e, q, n, said, en) ==
  /\ e.status \in {"SOCK_REQUEST", "RESOLVING"} =>
       e.bufC \in Seq(Piece) /\ e.bufC \o q = Pieces(2, n) /\ n \in 2..Handshake
  /\ e.status = "RESOLVING" => Has(e.bufC, Handshake - 1)
  /\ e.status \in {"SOCK_REQUEST", "RESOLVING"} =>
       said \in {<<>>, <<Reply("welcome")>>} /\ (en # "reset" => said = <<Reply("welcome")>>)

Passes(bufC, bufS, q, n, said, en, s) ==
  /\ n >= s.from
  /\ s.peer # "refused" => s.got \o s.wq \o Held(bufC) \o q = Pieces(s.from, n)
  /\ en # "reset" => said \o Datas(Held(bufS) \o s.inq) = SentFrom(s)
  /\ bufC = EOF /\ s.peer # "refused" => en \in {"fin", "reset"} /\ q = <<>>
  /\ bufS = EOF /\ en # "reset" => s.peer = "fin" /\ s.inq = <<>>

Fits(e, q, n, said, en, s) ==
  /\ Greets(e, q, n, said) /\ Asks(e, q, n, said, en)
  /\ e.status = "FORWARDING" => Passes(e.bufC, e.bufS, q, n, said, en, s)

Counts == 0..(Handshake + MaxData)

LEMMA NewFits ==
  ASSUME NEW c, NEW n \in Counts, n <= 2, NEW s, NEW en, NEW q, q = Pieces(0, n)
  PROVE  Fits(Entry(c), q, n, <<>>, en, s)
<1>1. 0 \in Counts /\ 0 <= n
  BY Bounds DEF Counts, Handshake
<1>2. q \in Seq(Piece)
  BY <1>1, PiecesProperties DEF Counts
<1>3. <<>> \o q = q
  BY <1>2, ConcatEmptySeq
<1>. QED
  BY <1>3 DEF Fits, Greets, Asks, Entry

(* The client sends what it may.                                            *)
LEMMA SendFits ==
  ASSUME NEW e \in Sound, NEW q \in Seq(Piece), NEW n \in Counts, NEW m \in Counts, n < m,
         NEW said \in Seq(Message), NEW s, e.status = "FORWARDING" => s \in ServerSocket,
         Fits(e, q, n, said, "open", s),
         said = <<>> => m <= 2, said = <<Reply("welcome")>> => m <= Handshake
  PROVE  Fits(e, q \o Pieces(n, m), m, said, "open", s)
<1>1. /\ n \in Int /\ m \in Int /\ n <= m /\ 0 \in Counts /\ 2 \in Counts /\ Handshake \in Counts
      /\ Handshake = 6 /\ Pieces(n, m) \in Seq(Piece)
  <2>1. n \in Int /\ m \in Int /\ n <= m /\ 0 \in Counts /\ 2 \in Counts /\ Handshake \in Counts
        /\ Handshake = 6
    BY Bounds DEF Counts, Handshake
  <2>. QED
    BY <2>1, PiecesProperties DEF Counts
<1>2. ASSUME NEW a \in Counts, a <= n, NEW x \in Seq(Piece)
      PROVE  x \o q = Pieces(a, n) => x \o (q \o Pieces(n, m)) = Pieces(a, m)
  <2>1. x \o (q \o Pieces(n, m)) = (x \o q) \o Pieces(n, m)
    <3>1. PICK p \in Seq(Piece) : p = Pieces(n, m)
      BY <1>1
    <3>2. x \o (q \o p) = (x \o q) \o p
      BY SMTT(30), ConcatAssociative
    <3>. QED
      BY <3>1, <3>2
  <2>2. Pieces(a, n) \o Pieces(n, m) = Pieces(a, m)
    BY ZenonT(30), <1>1, <1>2, PiecesGrow DEF Counts
  <2>. QED
    BY <2>1, <2>2
<1>3. e.status \notin {"RESOLVING", "FORWARDING"} => e.bufC \in Seq(Piece)
  BY DEF Sound
<1>4. Greets(e, q \o Pieces(n, m), m, said)
  <2>1. e.status = "INCOMING" => e.bufC \o (q \o Pieces(n, m)) = Pieces(0, m)
    <3>1. 0 <= n
      BY Bounds DEF Counts, Handshake
    <3>. QED
      BY <1>1, <1>2, <1>3, <3>1 DEF Fits, Greets
  <2>2. e.status # "AUTH_SUCCESS"
    BY <1>1 DEF Fits, Greets
  <2>. QED
    BY <2>1, <2>2 DEF Fits, Greets
<1>5. Asks(e, q \o Pieces(n, m), m, said, "open")
  <2>1. ASSUME e.status \in {"SOCK_REQUEST", "RESOLVING"}
        PROVE  /\ e.bufC \in Seq(Piece)
               /\ e.bufC \o (q \o Pieces(n, m)) = Pieces(2, m) /\ m \in 2..Handshake
    <3>1. n \in 2..Handshake /\ e.bufC \in Seq(Piece) /\ e.bufC \o q = Pieces(2, n) /\ m <= Handshake
      BY <2>1 DEF Fits, Asks
    <3>2. 2 <= n /\ m \in 2..Handshake
      BY <1>1, <3>1
    <3>. QED
      BY <1>1, <1>2, <3>1, <3>2
  <2>. QED
    BY <2>1 DEF Fits, Asks
<1>6. ASSUME e.status = "FORWARDING" PROVE Passes(e.bufC, e.bufS, q \o Pieces(n, m), m, said, "open", s)
  <2>1. Passes(e.bufC, e.bufS, q, n, said, "open", s)
    BY <1>6 DEF Fits
  <2>2. s.from \in Counts /\ s.from <= n /\ n >= s.from /\ m >= s.from
    <3>1. s.from \in {5, 6}
      BY <1>1, <1>6 DEF ServerSocket
    <3>2. s.from \in Counts /\ s.from \in Int
      BY <1>1, <3>1, Bounds DEF Counts
    <3>3. n >= s.from
      BY <2>1 DEF Passes
    <3>. QED
      BY <1>1, <3>2, <3>3
  <2>3. s.got \o s.wq \o Held(e.bufC) \in Seq(Piece)
    <3>1. s.got \in Seq(Piece) /\ s.wq \in Seq(Piece) /\ Held(e.bufC) \in Seq(Piece)
      BY <1>6, HeldIsTyped DEF ServerSocket, Sound, Connection
    <3>2. s.got \o s.wq \in Seq(Piece)
      BY <3>1, ConcatProperties
    <3>. QED
      BY <3>1, <3>2, ConcatProperties
  <2>4. s.peer # "refused" =>
          s.got \o s.wq \o Held(e.bufC) \o (q \o Pieces(n, m)) = Pieces(s.from, m)
    BY <1>1, <1>2, <2>1, <2>2, <2>3 DEF Passes
  <2>. QED
    BY <2>1, <2>2, <2>4 DEF Passes
<1>. QED
  BY <1>4, <1>5, <1>6 DEF Fits

(* It finishes, or resets the connection and loses what it has not read.    *)
LEMMA EndFits ==
  ASSUME NEW e, NEW q, NEW n, NEW said, NEW en, NEW s, Fits(e, q, n, said, en, s), NEW kept
  PROVE  /\ Fits(e, q, n, said, "fin", s) \/ en = "reset"
         /\ /\ said = <<>> => kept = <<>>
            /\ said = <<Reply("welcome")>> => kept \in {<<>>, <<Reply("welcome")>>}
            => Fits(e, q, n, kept, "reset", s)
BY DEF Fits, Greets, Asks, Passes

LEMMA MessagesAssociate == \A x, y, z \in Seq(Message) : (x \o y) \o z = x \o (y \o z)
BY ConcatAssociative
LEMMA PiecesAssociate == \A x, y, z \in Seq(Piece) : (x \o y) \o z = x \o (y \o z)
BY ConcatAssociative
LEMMA NumbersAssociate == \A x, y, z \in Seq(1..MaxData) : (x \o y) \o z = x \o (y \o z)
BY ConcatAssociative

(* A piece of data that the server sends follows those before it.           *)
LEMMA DataFollows ==
  ASSUME NEW said \in Seq(Message), NEW b \in Seq(1..MaxData), NEW r \in Seq(1..MaxData),
         NEW k \in 0..MaxData, NEW l \in 0..MaxData, l = k + 1
  PROVE  said \o Datas(b \o r) = Accepted \o Firsts(k) =>
           said \o Datas(b \o Append(r, l)) = Accepted \o Firsts(l)
<1>1. l \in 1..MaxData
  BY Bounds
<1>2. PICK D : D = 1..MaxData
  OBVIOUS
<1>3. PICK one : one = <<l>>
  OBVIOUS
<1>4. l \in D /\ r \in Seq(D) /\ b \in Seq(D) /\ one \in Seq(D) /\ one \in Seq(1..MaxData)
  BY <1>1, <1>2, <1>3
<1>5. Append(r, l) = r \o one
  BY <1>3, <1>4, AppendIsConcat
<1>6. b \o (r \o one) = (b \o r) \o one
  BY <1>4, NumbersAssociate
<1>7. b \o r \in Seq(1..MaxData)
  BY ConcatProperties
<1>8. Datas((b \o r) \o one) = Datas(b \o r) \o Datas(one)
  BY <1>4, <1>7, DatasConcat
<1>9. Datas(b \o r) \in Seq(Message) /\ Datas(one) \in Seq(Message)
  BY <1>4, <1>7, DatasProperties
<1>10. (said \o Datas(b \o r)) \o Datas(one) = said \o (Datas(b \o r) \o Datas(one))
  BY <1>9, MessagesAssociate, Zenon
<1>11. Accepted \in Seq(Message) /\ Firsts(k) \in Seq(Message)
  <2>1. Reply("welcome") \in Message /\ Reply("granted") \in Message
    BY Bounds DEF Reply, Message
  <2>2. Accepted \in Seq(Message)
    BY <2>1 DEF Accepted
  <2>. QED
    BY <2>2, FirstsProperties
<1>12. (Accepted \o Firsts(k)) \o Datas(one) = Accepted \o (Firsts(k) \o Datas(one))
  BY ZenonT(30), <1>9, <1>11, MessagesAssociate
<1>13. Firsts(l) = Firsts(k) \o Datas(one)
  BY <1>3, FirstsGrow
<1>. QED
  BY <1>5, <1>6, <1>8, <1>10, <1>12, <1>13, Zenon

(* The server sends, finishes and reads.                                    *)
LEMMA ServerFits ==
  ASSUME NEW e \in Sound, NEW q \in Seq(Piece), NEW n \in Counts, NEW said \in Seq(Message), NEW en,
         NEW s \in ServerSocket, e.status = "FORWARDING", Fits(e, q, n, said, en, s)
  PROVE  /\ s.peer = "open" /\ s.sent + 1 <= MaxData =>
              Fits(e, q, n, said, en, [s EXCEPT !.sent = @ + 1, !.inq = Append(@, s.sent + 1)])
         /\ s.peer # "refused" => Fits(e, q, n, said, en, [s EXCEPT !.peer = "fin"])
         /\ Fits(e, q, n, said, en, [s EXCEPT !.got = @ \o s.wq, !.wq = <<>>])
<1>1. Passes(e.bufC, e.bufS, q, n, said, en, s) /\ Greets(e, q, n, said) /\ Asks(e, q, n, said, en)
  BY DEF Fits
<1>2. /\ Held(e.bufC) \in Seq(Piece) /\ Held(e.bufS) \in Seq(1..MaxData)
      /\ s.got \in Seq(Piece) /\ s.wq \in Seq(Piece) /\ s.inq \in Seq(1..MaxData) /\ s.sent \in 0..MaxData
  BY HeldIsTyped DEF ServerSocket, Sound, Connection
<1>3. ASSUME s.peer = "open", s.sent + 1 <= MaxData
      PROVE  Fits(e, q, n, said, en, [s EXCEPT !.sent = @ + 1, !.inq = Append(@, s.sent + 1)])
  <2>1. PICK l \in 0..MaxData : l = s.sent + 1 /\ l \in 1..MaxData
    BY <1>2, <1>3, Bounds
  <2>2. PICK t : t = [s EXCEPT !.sent = l, !.inq = Append(@, l)]
    OBVIOUS
  <2>3. t.sent = l /\ t.inq = Append(s.inq, l) /\ t.got = s.got /\ t.wq = s.wq /\ t.peer = s.peer
        /\ t.from = s.from
    BY <1>2, <2>2 DEF ServerSocket
  <2>4. ASSUME en # "reset" PROVE said \o Datas(Held(e.bufS) \o t.inq) = SentFrom(t)
    <3>1. said \o Datas(Held(e.bufS) \o s.inq) = Accepted \o Firsts(s.sent)
      BY <1>1, <2>4 DEF Passes, SentFrom, Firsts
    <3>2. said \o Datas(Held(e.bufS) \o Append(s.inq, l)) = Accepted \o Firsts(l)
      BY <1>2, <2>1, <3>1, DataFollows
    <3>. QED
      BY <2>3, <3>2 DEF SentFrom, Firsts
  <2>5. e.bufS = EOF => en = "reset"
    BY <1>1, <1>3 DEF Passes
  <2>6. Passes(e.bufC, e.bufS, q, n, said, en, t)
    BY <1>1, <2>3, <2>4, <2>5 DEF Passes
  <2>7. t = [s EXCEPT !.sent = @ + 1, !.inq = Append(@, s.sent + 1)]
    BY <2>1, <2>2
  <2>. QED
    BY <1>1, <2>6, <2>7 DEF Fits
<1>4. ASSUME s.peer # "refused" PROVE Fits(e, q, n, said, en, [s EXCEPT !.peer = "fin"])
  <2>1. PICK t : t = [s EXCEPT !.peer = "fin"]
    OBVIOUS
  <2>2. t.peer = "fin" /\ t.sent = s.sent /\ t.inq = s.inq /\ t.got = s.got /\ t.wq = s.wq
        /\ t.from = s.from
    BY <2>1 DEF ServerSocket
  <2>3. SentFrom(t) = SentFrom(s)
    BY <2>2 DEF SentFrom
  <2>4. Passes(e.bufC, e.bufS, q, n, said, en, t)
    BY <1>1, <1>4, <2>2, <2>3 DEF Passes
  <2>. QED
    BY <1>1, <2>1, <2>4 DEF Fits
<1>5. Fits(e, q, n, said, en, [s EXCEPT !.got = @ \o s.wq, !.wq = <<>>])
  <2>1. PICK t : t = [s EXCEPT !.got = @ \o s.wq, !.wq = <<>>]
    OBVIOUS
  <2>2. t.peer = s.peer /\ t.sent = s.sent /\ t.inq = s.inq /\ t.got = s.got \o s.wq /\ t.wq = <<>>
        /\ t.from = s.from
    BY <2>1 DEF ServerSocket
  <2>3. SentFrom(t) = SentFrom(s)
    BY <2>2 DEF SentFrom
  <2>4. t.got \o t.wq = s.got \o s.wq
    <3>1. PICK x \in Seq(Piece) : x = s.got \o s.wq
      BY <1>2, ConcatProperties
    <3>2. x \o <<>> = x
      BY ConcatEmptySeq
    <3>. QED
      BY <2>2, <3>1, <3>2
  <2>5. Passes(e.bufC, e.bufS, q, n, said, en, t)
    BY <1>1, <2>2, <2>3, <2>4 DEF Passes
  <2>. QED
    BY <1>1, <2>1, <2>5 DEF Fits
<1>. QED
  BY <1>3, <1>4, <1>5

-----------------------------------------------------------------------------
(* What a handler does to the entry it looks at.                            *)
LEMMA WelcomeFits ==
  ASSUME NEW e, e.status = "AUTH_SUCCESS", NEW f, f.status = "SOCK_REQUEST", f.bufC = <<>>,
         NEW q, NEW n, NEW said, NEW en, NEW s, Fits(e, q, n, said, en, s), NEW told,
         told \in {said, said \o <<Reply("welcome")>>}, en # "reset" => told = said \o <<Reply("welcome")>>
  PROVE  Fits(f, q, n, told, en, s)
<1>1. said = <<>> /\ n = 2 /\ q = <<>>
  BY DEF Fits, Greets
<1>2. <<>> \o <<Reply("welcome")>> = <<Reply("welcome")>> /\ <<>> \o <<>> = <<>> /\ Pieces(2, 2) = <<>>
  <2>1. Reply("welcome") \in Message
    BY Bounds DEF Reply, Message
  <2>2. <<Reply("welcome")>> \in Seq(Message) /\ <<>> \in Seq(Message)
    BY <2>1
  <2>. QED
    BY <2>2, ConcatEmptySeq, NoPieces
<1>3. n \in 2..Handshake
  BY <1>1 DEF Handshake
<1>4. told \in {<<>>, <<Reply("welcome")>>} /\ (en # "reset" => told = <<Reply("welcome")>>)
  BY <1>1, <1>2
<1>. QED
  BY <1>1, <1>2, <1>3, <1>4, EmptySeq DEF Fits, Greets, Asks

(* What is read is added to the buffer.                                     *)
Adds(f, e, q) == f.bufC = e.bufC \o q

LEMMA GreetingFits ==
  ASSUME NEW e \in Sound, e.status = "INCOMING", NEW q \in Seq(Piece), NEW n \in Counts,
         NEW f, Adds(f, e, q), NEW said, NEW en, NEW s, Fits(e, q, n, said, en, s),
         \/ f.status = "INCOMING"
         \/ f.status = "AUTH_SUCCESS" /\ Has(f.bufC, 2)
         \/ f.status = "AUTH_FAILURE"
  PROVE  Fits(f, <<>>, n, said, en, s)
<1>1. e.bufC \in Seq(Piece) /\ said = <<>> /\ n <= 2 /\ f.bufC = Pieces(0, n)
  <2>1. e.bufC \in Seq(Piece) /\ Greets(e, q, n, said) /\ f.bufC = e.bufC \o q
    BY DEF Fits, Sound, Adds
  <2>2. said = <<>> /\ n <= 2
    BY DEF Fits, Greets
  <2>3. e.bufC \o q = Pieces(0, n)
    BY <2>1 DEF Greets
  <2>. QED
    BY <2>1, <2>2, <2>3, Zenon
<1>2. f.bufC \in Seq(Piece) /\ <<>> \in Seq(Piece)
  BY <1>1, ConcatProperties, EmptySeq DEF Adds
<1>3. f.bufC \o <<>> = f.bufC
  BY <1>2, ConcatEmptySeq
<1>4. Has(f.bufC, 2) => n = 2
  <2>1. 0 \in 0..Handshake /\ 2 \in 0..Handshake /\ n \in 0..Handshake /\ 0 <= n /\ n \in Int
    BY <1>1, Bounds DEF Handshake, Counts
  <2>2. f.bufC \o <<>> = Pieces(0, n)
    BY <1>1, <1>3
  <2>3. PICK b \in Seq(Piece), r \in Seq(Piece) : b = f.bufC /\ r = <<>>
    BY <1>2
  <2>4. b \o r = Pieces(0, n)
    BY <2>2, <2>3, Zenon
  <2>5. ASSUME Has(b, 2) PROVE n = 2
    <3>1. PICK z \in 0..Handshake, m \in 0..Handshake : z = 0 /\ m = 2
      BY <2>1
    <3>2. b \o r = Pieces(z, n) /\ Has(b, m) /\ z <= n /\ n <= m
      BY <1>1, <2>1, <2>4, <2>5, <3>1
    <3>3. n = m /\ r = <<>>
      BY <2>1, <3>2, AllRead
    <3>. QED
      BY <3>1, <3>3
  <2>. QED
    BY <2>3, <2>5
<1>. QED
  BY <1>1, <1>3, <1>4 DEF Fits, Greets, Asks

LEMMA RequestFits ==
  ASSUME NEW e \in Sound, e.status = "SOCK_REQUEST", NEW q \in Seq(Piece), NEW n \in Counts,
         NEW f, f.status = "SOCK_REQUEST", Adds(f, e, q), NEW said, NEW en, NEW s,
         Fits(e, q, n, said, en, s)
  PROVE  Fits(f, <<>>, n, said, en, s)
<1>1. e.bufC \in Seq(Piece) /\ Asks(e, q, n, said, en) /\ f.bufC = e.bufC \o q
  BY DEF Fits, Sound, Adds
<1>2. f.bufC \in Seq(Piece)
  BY <1>1, ConcatProperties
<1>3. f.bufC \o <<>> = f.bufC
  BY <1>2, ConcatEmptySeq
<1>. QED
  BY <1>1, <1>2, <1>3 DEF Fits, Greets, Asks

(* What has been taken for the request is followed by what is still to be   *)
(* read.                                                                    *)
Taking(e) == \/ e.status = "SOCK_REQUEST" /\ (Has(e.bufC, 5) \/ Has(e.bufC, 6))
             \/ e.status = "RESOLVING"

LEMMA WholeRequest ==
  ASSUME NEW e, NEW q \in Seq(Piece), NEW n, NEW said, NEW en, NEW s,
         Fits(e, q, n, said, en, s), Taking(e)
  PROVE  /\ n \in 0..Handshake /\ LastPiece(e) \in {5, 6} /\ LastPiece(e) <= n
         /\ q = Pieces(LastPiece(e), n)
         /\ said \in {<<>>, <<Reply("welcome")>>} /\ (en # "reset" => said = <<Reply("welcome")>>)
<1>1. Asks(e, q, n, said, en) /\ Handshake = 6 /\ Handshake - 1 = 5
  BY DEF Fits, Handshake
<1>2. PICK b \in Seq(Piece) : b = e.bufC /\ b \o q = Pieces(2, n)
  BY <1>1 DEF Asks, Taking
<1>3. 2 \in 0..Handshake /\ n \in 0..Handshake /\ 2 <= n
  BY <1>1 DEF Asks, Taking
<1>4. CASE Has(b, 6)
  <2>1. LastPiece(e) = 6
    BY <1>1, <1>2, <1>4 DEF LastPiece
  <2>2. ~Has(b, 7)
    <3>1. PICK a \in 0..Handshake : a = 2
      BY <1>3
    <3>2. a <= n /\ b \o q = Pieces(a, n)
      BY <1>2, <1>3, <3>1, Zenon
    <3>3. \A x \in DOMAIN b : b[x] # Handshake + 1
      BY <1>3, <3>2, NoneBeyond
    <3>. QED
      BY <1>1, <3>3 DEF Has
  <2>3. 6 <= n /\ q = Pieces(6, n)
    <3>1. PICK a \in 0..Handshake, m \in 0..Handshake, l \in 1..(Handshake + 1) : a = 2 /\ m = 6 /\ l = 7 /\ l = m + 1
      BY <1>1
    <3>2. a <= n /\ l = m + 1 /\ b \o q = Pieces(a, n) /\ Has(b, m) /\ ~Has(b, l)
      BY <1>2, <1>3, <1>4, <2>2, <3>1, Zenon
    <3>3. m <= n /\ Follows(q, m, n)
      BY <1>3, <3>2, WhatIsLeft
    <3>. QED
      BY <3>1, <3>3, Zenon DEF Follows
  <2>. QED
    BY <1>1, <1>3, <2>1, <2>3 DEF Asks, Taking
<1>5. CASE ~Has(b, 6)
  <2>1. LastPiece(e) = 5 /\ Has(b, 5)
    BY <1>1, <1>2, <1>5 DEF LastPiece, Asks, Taking
  <2>2. 5 <= n /\ q = Pieces(5, n)
    <3>1. PICK a \in 0..Handshake, m \in 0..Handshake, l \in 1..(Handshake + 1) : a = 2 /\ m = 5 /\ l = 6 /\ l = m + 1
      BY <1>1
    <3>2. a <= n /\ l = m + 1 /\ b \o q = Pieces(a, n) /\ Has(b, m) /\ ~Has(b, l)
      BY <1>2, <1>3, <1>5, <2>1, <3>1, Zenon
    <3>3. m <= n /\ Follows(q, m, n)
      BY <1>3, <3>2, WhatIsLeft
    <3>. QED
      BY <3>1, <3>3, Zenon DEF Follows
  <2>. QED
    BY <1>1, <1>3, <2>1, <2>2 DEF Asks, Taking
<1>. QED
  BY <1>4, <1>5

LEMMA NameFits ==
  ASSUME NEW e, NEW q, NEW n, NEW said, NEW en, NEW s, NEW t,
         Fits(e, q, n, said, en, s), e.status = "SOCK_REQUEST", Has(e.bufC, 5),
         NEW f, f.status = "RESOLVING", f.bufC = e.bufC
  PROVE  Fits(f, q, n, said, en, t)
<1>1. Handshake - 1 = 5
  BY DEF Handshake
<1>. QED
  BY <1>1 DEF Fits, Greets, Asks

Grants(told, said, en) == en # "reset" => told = said \o <<Reply("granted")>>

LEMMA OpenFits ==
  ASSUME NEW e, NEW q \in Seq(Piece), NEW n, NEW said, NEW en, NEW s, NEW peer,
         Fits(e, q, n, said, en, s), Taking(e),
         NEW f, f.status = "FORWARDING", f.bufC = <<>>, f.bufS = <<>>, NEW told, Grants(told, said, en)
  PROVE  Fits(f, q, n, told, en, Server(e, peer))
<1>1. /\ LastPiece(e) <= n /\ LastPiece(e) \in Int /\ n \in Int /\ q = Pieces(LastPiece(e), n)
      /\ en # "reset" => said = <<Reply("welcome")>>
  BY WholeRequest
<1>2. <<>> \o <<>> = <<>> /\ <<>> \o q = q /\ EOF # <<>> /\ Held(<<>>) = <<>>
      /\ Datas(<<>>) = <<>>
  <2>1. <<>> \in Seq(Piece)
    BY EmptySeq
  <2>. QED
    BY <2>1, ConcatEmptySeq, HeldIsTyped, DatasProperties DEF Held
<1>3. PICK s1 : s1 = Server(e, peer)
  OBVIOUS
<1>4. s1.got = <<>> /\ s1.wq = <<>> /\ s1.inq = <<>> /\ s1.sent = 0 /\ s1.from = LastPiece(e)
  BY <1>3 DEF Server
<1>5. en # "reset" => told \o <<>> = SentFrom(s1)
  <2>1. SUFFICES ASSUME en # "reset" PROVE told \o <<>> = SentFrom(s1)
    OBVIOUS
  <2>2. Reply("welcome") \in Message /\ Reply("granted") \in Message
    BY Bounds DEF Reply, Message
  <2>3. Accepted \in Seq(Message) /\ <<Reply("welcome")>> \o <<Reply("granted")>> = Accepted
    <3>1. PICK w \in Message, g \in Message : w = Reply("welcome") /\ g = Reply("granted")
      BY <2>2
    <3>2. PICK a \in Seq(Message), b \in Seq(Message), u \in Seq(Message) :
            a = <<w>> /\ b = <<g>> /\ u = <<w, g>>
      <4>1. <<w>> \in Seq(Message) /\ <<g>> \in Seq(Message)
        OBVIOUS
      <4>2. <<w, g>> \in Seq(Message)
        OBVIOUS
      <4>. QED
        BY <4>1, <4>2, Zenon
    <3>3. Len(a) = 1 /\ Len(b) = 1 /\ Len(u) = 2 /\ a[1] = w /\ b[1] = g /\ u[1] = w /\ u[2] = g
      BY <3>2
    <3>4. Len(u) = Len(a) + Len(b) /\ (\A x \in 1..Len(a) : u[x] = a[x])
          /\ \A y \in 1..Len(b) : u[Len(a) + y] = b[y]
      BY <3>3
    <3>5. a \o b = u
      BY <3>4, ConcatIs
    <3>6. u \in Seq(Message) /\ <<w>> \o <<g>> = <<w, g>>
      BY <3>2, <3>5
    <3>. QED
      BY <3>1, <3>2, <3>6 DEF Accepted
  <2>4. told = Accepted
    BY <1>1, <2>1, <2>3 DEF Grants
  <2>5. [x \in 1..s1.sent |-> Data(x)] = <<>>
    BY <1>4
  <2>. QED
    BY <2>3, <2>4, <2>5 DEF SentFrom
<1>6. Passes(<<>>, <<>>, q, n, told, en, s1)
  <2>1. s1.got \o s1.wq \o Held(<<>>) \o q = Pieces(s1.from, n)
    BY <1>1, <1>2, <1>4, Zenon
  <2>2. en # "reset" => told \o Datas(Held(<<>>) \o s1.inq) = SentFrom(s1)
    BY <1>2, <1>4, <1>5, Zenon
  <2>3. n >= s1.from /\ <<>> # EOF
    BY <1>1, <1>2, <1>4
  <2>. QED
    BY <2>1, <2>2, <2>3, Zenon DEF Passes
<1>. QED
  BY <1>3, <1>6 DEF Fits, Greets, Asks

-----------------------------------------------------------------------------
(* What the handler of a connection that forwards does to its entry.        *)

(* What is true of a connection when it is dropped.                         *)
Done(q, n, said, en, s) == s.peer # "refused" /\ en # "reset" =>
  /\ s.got \o s.wq \o q = Pieces(s.from, n)
  /\ said \o Datas(s.inq) = SentFrom(s)
  /\ \/ en = "fin" /\ q = <<>>
     \/ s.peer = "fin" /\ s.inq = <<>>

(* Reading moves what was queued into the buffer and loses nothing.         *)
Taken(buf, events, queue) == IF buf = <<>> /\ "in" \in events THEN <<>> ELSE queue

Keeps(buf, queue, read, rest, heard) ==
  /\ Held(read) \o rest = Held(buf) \o queue
  /\ read = EOF => buf = EOF \/ (heard /\ queue = <<>> /\ rest = <<>>)

LEMMA ReadKeeps ==
  ASSUME NEW S, EOF \notin Seq(S), NEW buf \in Seq(S) \cup {EOF}, NEW events, NEW queue \in Seq(S)
  PROVE  /\ Keeps(buf, queue, ReadFrom(buf, events, queue), Taken(buf, events, queue), "in" \in events)
         /\ ReadFrom(buf, events, queue) \in Seq(S) \cup {EOF}
         /\ Taken(buf, events, queue) \in Seq(S)
<1>1. EOF # <<>> /\ <<>> \in Seq(S) /\ Held(EOF) = <<>> /\ \A b \in Seq(S) : Held(b) = b
  BY EmptySeq DEF Held
<1>2. CASE buf = <<>> /\ "in" \in events /\ queue = <<>>
  BY <1>1, <1>2 DEF ReadFrom, Taken, Keeps
<1>3. CASE buf = <<>> /\ "in" \in events /\ queue # <<>>
  <2>1. ReadFrom(buf, events, queue) = queue /\ Taken(buf, events, queue) = <<>>
    BY <1>3 DEF ReadFrom, Taken
  <2>2. queue \o <<>> = queue /\ <<>> \o queue = queue
    BY ConcatEmptySeq
  <2>3. Held(queue) = queue /\ Held(<<>>) = <<>> /\ queue # EOF
    BY <1>1
  <2>4. Held(queue) \o <<>> = Held(<<>>) \o queue
    BY <2>2, <2>3, Zenon
  <2>5. Held(ReadFrom(buf, events, queue)) \o Taken(buf, events, queue) = Held(buf) \o queue
    BY <1>3, <2>1, <2>4, Zenon
  <2>6. ReadFrom(buf, events, queue) # EOF
    BY <2>1, <2>3
  <2>7. ReadFrom(buf, events, queue) \in Seq(S) \cup {EOF} /\ Taken(buf, events, queue) \in Seq(S)
    BY <1>1, <2>1
  <2>. QED
    BY <2>5, <2>6, <2>7, Zenon DEF Keeps
<1>4. CASE ~(buf = <<>> /\ "in" \in events)
  <2>1. ReadFrom(buf, events, queue) = buf /\ Taken(buf, events, queue) = queue
    BY <1>4 DEF ReadFrom, Taken
  <2>2. Held(ReadFrom(buf, events, queue)) \o Taken(buf, events, queue) = Held(buf) \o queue
    BY <2>1, Zenon
  <2>3. ReadFrom(buf, events, queue) = EOF => buf = EOF
    BY <2>1
  <2>4. ReadFrom(buf, events, queue) \in Seq(S) \cup {EOF} /\ Taken(buf, events, queue) \in Seq(S)
    BY <2>1
  <2>. QED
    BY <2>2, <2>3, <2>4, Zenon DEF Keeps
<1>. QED
  BY <1>2, <1>3, <1>4

LEMMA ReadKeepsAll ==
  /\ \A buf \in Seq(Piece) \cup {EOF}, queue \in Seq(Piece) : \A events :
       /\ Keeps(buf, queue, ReadFrom(buf, events, queue), Taken(buf, events, queue), "in" \in events)
       /\ ReadFrom(buf, events, queue) \in Seq(Piece) \cup {EOF}
       /\ Taken(buf, events, queue) \in Seq(Piece)
  /\ \A buf \in Seq(1..MaxData) \cup {EOF}, queue \in Seq(1..MaxData) : \A events :
       /\ Keeps(buf, queue, ReadFrom(buf, events, queue), Taken(buf, events, queue), "in" \in events)
       /\ ReadFrom(buf, events, queue) \in Seq(1..MaxData) \cup {EOF}
       /\ Taken(buf, events, queue) \in Seq(1..MaxData)
<1>1. EOF \notin Seq(Piece) /\ EOF \notin Seq(1..MaxData)
  BY HeldIsTyped
<1>. QED
  BY <1>1, ReadKeeps, Zenon

(* What is written was in the buffer: towards the server ...                *)
Serves(g, w, b, q, r, t) ==
  /\ g \o w \o Held(b) \o q = g \o w \o Held(r) \o t
  /\ r # EOF => g \o w \o Held(b) \o q = g \o (w \o r) \o Held(<<>>) \o t

LEMMA WriteServes ==
  \A g, w, q, t \in Seq(Piece), b, r \in Seq(Piece) \cup {EOF} :
    Held(b) \o q = Held(r) \o t => Serves(g, w, b, q, r, t)
<1>. SUFFICES ASSUME NEW g \in Seq(Piece), NEW w \in Seq(Piece), NEW q \in Seq(Piece), NEW t \in Seq(Piece),
                     NEW b \in Seq(Piece) \cup {EOF}, NEW r \in Seq(Piece) \cup {EOF},
                     Held(b) \o q = Held(r) \o t
              PROVE  Serves(g, w, b, q, r, t)
  BY Zenon
<1>1. Held(b) \in Seq(Piece) /\ Held(r) \in Seq(Piece) /\ (r # EOF => r \in Seq(Piece) /\ Held(r) = r)
      /\ Held(<<>>) = <<>> /\ g \o w \in Seq(Piece)
  BY HeldIsTyped, ConcatProperties, EmptySeq DEF Held
<1>2. g \o w \o Held(b) \o q = g \o w \o Held(r) \o t
  <2>1. PICK x \in Seq(Piece), h \in Seq(Piece), l \in Seq(Piece) : x = g \o w /\ h = Held(b) /\ l = Held(r)
    BY <1>1
  <2>2. (x \o h) \o q = x \o (h \o q)
    BY ZenonT(30), PiecesAssociate
  <2>3. (x \o l) \o t = x \o (l \o t)
    BY ZenonT(30), PiecesAssociate
  <2>. QED
    BY <2>1, <2>2, <2>3, Zenon
<1>3. ASSUME r # EOF PROVE g \o w \o Held(b) \o q = g \o (w \o r) \o Held(<<>>) \o t
  <2>1. r \in Seq(Piece) /\ Held(r) = r
    BY <1>1, <1>3
  <2>2. (g \o w) \o r = g \o (w \o r)
    BY <2>1, PiecesAssociate
  <2>3. g \o (w \o r) \in Seq(Piece)
    BY <2>1, ConcatProperties
  <2>4. (g \o (w \o r)) \o <<>> = g \o (w \o r)
    BY <2>3, ConcatEmptySeq
  <2>. QED
    BY <1>1, <1>2, <2>1, <2>2, <2>4, Zenon
<1>. QED
  BY <1>2, <1>3, Zenon DEF Serves

(* ... and towards the client.                                              *)
Tells(said, b, q, r, t) ==
  /\ said \o Datas(Held(b) \o q) = said \o Datas(Held(r) \o t)
  /\ r # EOF => said \o Datas(Held(b) \o q) = (said \o Datas(r)) \o Datas(Held(<<>>) \o t)

LEMMA WriteAnswers ==
  \A said \in Seq(Message), q, t \in Seq(1..MaxData), b, r \in Seq(1..MaxData) \cup {EOF} :
    Held(b) \o q = Held(r) \o t => Tells(said, b, q, r, t)
<1>. SUFFICES ASSUME NEW said \in Seq(Message), NEW q \in Seq(1..MaxData), NEW t \in Seq(1..MaxData),
                     NEW b \in Seq(1..MaxData) \cup {EOF}, NEW r \in Seq(1..MaxData) \cup {EOF},
                     Held(b) \o q = Held(r) \o t
              PROVE  Tells(said, b, q, r, t)
  BY Zenon
<1>1. Held(<<>>) = <<>> /\ (r # EOF => r \in Seq(1..MaxData) /\ Held(r) = r)
  BY HeldIsTyped DEF Held
<1>2. ASSUME r # EOF PROVE said \o Datas(r \o t) = (said \o Datas(r)) \o Datas(<<>> \o t)
  <2>1. PICK D : D = 1..MaxData
    OBVIOUS
  <2>2. t \in Seq(D)
    BY <2>1
  <2>3. <<>> \o t = t
    BY <2>2, ConcatEmptySeq
  <2>4. Datas(r \o t) = Datas(r) \o Datas(t)
    BY <1>1, <1>2, DatasConcat
  <2>5. Datas(r) \in Seq(Message) /\ Datas(t) \in Seq(Message)
    BY <1>1, <1>2, DatasProperties
  <2>6. (said \o Datas(r)) \o Datas(t) = said \o (Datas(r) \o Datas(t))
    BY <2>5, MessagesAssociate
  <2>. QED
    BY <2>3, <2>4, <2>6, Zenon
<1>. QED
  BY <1>1, <1>2, Zenon DEF Tells

(* What is written then, t being what becomes of s.                         *)
Writes(t, s, e, evS, readC) ==
  /\ t.got = s.got /\ t.peer = s.peer /\ t.sent = s.sent /\ t.inq = Taken(e.bufS, evS, s.inq)
  /\ t.from = s.from
  /\ t.wq = IF Writable(readC, evS) /\ s.peer # "refused" THEN s.wq \o readC ELSE s.wq
Says(told, said, evC, readS, en) ==
  en # "reset" => told = IF Writable(readS, evC) THEN said \o Datas(readS) ELSE said

LEMMA ForwardFits ==
  ASSUME NEW e \in Sound, e.status = "FORWARDING", NEW q \in Seq(Piece), NEW n \in Counts,
         NEW said \in Seq(Message), NEW en, NEW s \in ServerSocket, Fits(e, q, n, said, en, s),
         NEW evC, "in" \in evC => q # <<>> \/ en \in {"fin", "reset"},
         NEW evS, "in" \in evS => s.inq # <<>> \/ s.peer = "fin",
         NEW readC, readC = ReadFrom(e.bufC, evC, q),
         NEW readS, readS = ReadFrom(e.bufS, evS, s.inq),
         NEW f, f.status = "FORWARDING",
         f.bufC = IF ~Writable(readC, evS) THEN readC ELSE IF s.peer = "refused" THEN EOF ELSE <<>>,
         f.bufS = IF ~Writable(readS, evC) THEN readS ELSE IF en = "reset" THEN EOF ELSE <<>>,
         NEW t, Writes(t, s, e, evS, readC), NEW told, Says(told, said, evC, readS, en),
         NEW r, r = Taken(e.bufC, evC, q)
  PROVE  /\ Fits(f, r, n, told, en, t)
         /\ Ends(f.bufC, f.bufS) => Done(r, n, told, en, t)
<1>1. Passes(e.bufC, e.bufS, q, n, said, en, s)
  BY DEF Fits
<1>0. /\ t.got = s.got /\ t.peer = s.peer /\ t.from = s.from /\ t.sent = s.sent /\ t.inq = Taken(e.bufS, evS, s.inq)
      /\ t.wq = IF Writable(readC, evS) /\ s.peer # "refused" THEN s.wq \o readC ELSE s.wq
      /\ en # "reset" => told = IF Writable(readS, evC) THEN said \o Datas(readS) ELSE said
  BY Zenon DEF Writes, Says
<1>2. /\ e.bufC \in Seq(Piece) \cup {EOF} /\ e.bufS \in Seq(1..MaxData) \cup {EOF}
      /\ s.got \in Seq(Piece) /\ s.wq \in Seq(Piece) /\ s.inq \in Seq(1..MaxData)
      /\ EOF \notin Seq(Piece) /\ EOF \notin Seq(1..MaxData) /\ EOF # <<>> /\ Held(EOF) = <<>>
      /\ Held(<<>>) = <<>>
  BY HeldIsTyped DEF ServerSocket, Sound, Connection, Held
<1>3. /\ Held(readC) \o r = Held(e.bufC) \o q
      /\ readC \in Seq(Piece) \cup {EOF} /\ r \in Seq(Piece)
      /\ readC = EOF => e.bufC = EOF \/ ("in" \in evC /\ q = <<>> /\ r = <<>>)
  <2>1. /\ Keeps(e.bufC, q, readC, r, "in" \in evC)
        /\ readC \in Seq(Piece) \cup {EOF} /\ r \in Seq(Piece)
    BY <1>2, ReadKeepsAll, Zenon
  <2>. QED
    BY <2>1, Zenon DEF Keeps
<1>4. /\ Held(readS) \o t.inq = Held(e.bufS) \o s.inq
      /\ readS \in Seq(1..MaxData) \cup {EOF} /\ t.inq \in Seq(1..MaxData)
      /\ readS = EOF => e.bufS = EOF \/ ("in" \in evS /\ s.inq = <<>> /\ t.inq = <<>>)
  <2>1. /\ Keeps(e.bufS, s.inq, readS, t.inq, "in" \in evS)
        /\ readS \in Seq(1..MaxData) \cup {EOF} /\ t.inq \in Seq(1..MaxData)
    BY <1>0, <1>2, ReadKeepsAll, Zenon
  <2>. QED
    BY <2>1, Zenon DEF Keeps
<1>5. /\ Writable(readC, evS) => readC # EOF
      /\ Writable(readS, evC) => readS # EOF
  BY <1>2 DEF Writable
<1>6. s.peer # "refused" => t.got \o t.wq \o Held(f.bufC) \o r = Pieces(t.from, n)
  <2>1. SUFFICES ASSUME s.peer # "refused" PROVE t.got \o t.wq \o Held(f.bufC) \o r = Pieces(t.from, n)
    OBVIOUS
  <2>2. s.got \o s.wq \o Held(e.bufC) \o q = Pieces(s.from, n)
    BY <1>1, <2>1 DEF Passes
  <2>3. /\ s.got \o s.wq \o Held(e.bufC) \o q = s.got \o s.wq \o Held(readC) \o r
        /\ readC # EOF =>
             s.got \o s.wq \o Held(e.bufC) \o q = s.got \o (s.wq \o readC) \o Held(<<>>) \o r
    <3>1. Held(e.bufC) \o q = Held(readC) \o r
      BY <1>3
    <3>2. Serves(s.got, s.wq, e.bufC, q, readC, r)
      BY <1>2, <1>3, <3>1, WriteServes, Zenon
    <3>. QED
      BY <3>2, Zenon DEF Serves
  <2>4. CASE Writable(readC, evS)
    <3>1. t.wq = s.wq \o readC /\ f.bufC = <<>> /\ readC # EOF
      BY <1>0, <1>5, <2>1, <2>4, Zenon
    <3>. QED
      BY <1>0, <2>2, <2>3, <3>1, Zenon
  <2>5. CASE ~Writable(readC, evS)
    <3>1. t.wq = s.wq /\ f.bufC = readC
      BY <1>0, <2>5, Zenon
    <3>. QED
      BY <1>0, <2>2, <2>3, <3>1, Zenon
  <2>. QED
    BY <2>4, <2>5
<1>7. en # "reset" => told \o Datas(Held(f.bufS) \o t.inq) = SentFrom(t)
  <2>1. SUFFICES ASSUME en # "reset" PROVE told \o Datas(Held(f.bufS) \o t.inq) = SentFrom(t)
    OBVIOUS
  <2>2. said \o Datas(Held(e.bufS) \o s.inq) = SentFrom(s) /\ SentFrom(t) = SentFrom(s)
    BY <1>0, <1>1, <2>1 DEF Passes, SentFrom
  <2>3. /\ said \o Datas(Held(e.bufS) \o s.inq) = said \o Datas(Held(readS) \o t.inq)
        /\ readS # EOF =>
             said \o Datas(Held(e.bufS) \o s.inq) = (said \o Datas(readS)) \o Datas(Held(<<>>) \o t.inq)
    <3>1. Held(e.bufS) \o s.inq = Held(readS) \o t.inq
      BY <1>4
    <3>2. Tells(said, e.bufS, s.inq, readS, t.inq)
      BY <1>2, <1>4, <3>1, WriteAnswers, Zenon
    <3>. QED
      BY <3>2, Zenon DEF Tells
  <2>4. CASE Writable(readS, evC)
    <3>1. told = said \o Datas(readS) /\ f.bufS = <<>> /\ readS # EOF
      BY <1>0, <1>5, <2>1, <2>4, Zenon
    <3>. QED
      BY <2>2, <2>3, <3>1, Zenon
  <2>5. CASE ~Writable(readS, evC)
    <3>1. told = said /\ f.bufS = readS
      BY <1>0, <2>1, <2>5, Zenon
    <3>. QED
      BY <2>2, <2>3, <3>1, Zenon
  <2>. QED
    BY <2>4, <2>5
<1>8. f.bufC = EOF /\ s.peer # "refused" => en \in {"fin", "reset"} /\ r = <<>>
  <2>1. e.bufC = EOF /\ s.peer # "refused" => en \in {"fin", "reset"} /\ q = <<>>
    BY <1>1 DEF Passes
  <2>2. e.bufC = EOF => r = q
    BY <1>2 DEF Taken
  <2>. QED
    BY <1>2, <1>3, <2>1, <2>2
<1>9. f.bufS = EOF /\ en # "reset" => t.peer = "fin" /\ t.inq = <<>>
  <2>1. e.bufS = EOF /\ en # "reset" => s.peer = "fin" /\ s.inq = <<>>
    BY <1>1 DEF Passes
  <2>2. e.bufS = EOF => t.inq = s.inq
    BY <1>0, <1>2 DEF Taken
  <2>. QED
    BY <1>0, <1>2, <1>4, <2>1, <2>2
<1>10. Fits(f, r, n, told, en, t)
  <2>1. n >= t.from
    BY <1>0, <1>1 DEF Passes
  <2>2. Passes(f.bufC, f.bufS, r, n, told, en, t)
    BY <1>0, <1>6, <1>7, <1>8, <1>9, <2>1, Zenon DEF Passes
  <2>. QED
    BY <2>2 DEF Fits, Greets, Asks
<1>11. ASSUME Ends(f.bufC, f.bufS), s.peer # "refused", en # "reset"
       PROVE  /\ t.got \o t.wq \o r = Pieces(t.from, n)
              /\ told \o Datas(t.inq) = SentFrom(t)
              /\ \/ en = "fin" /\ r = <<>>
                 \/ t.peer = "fin" /\ t.inq = <<>>
  <2>1. Held(f.bufC) = <<>> /\ Held(f.bufS) = <<>>
    BY <1>2, <1>11 DEF Ends
  <2>2. t.got \o t.wq \in Seq(Piece)
    <3>1. t.wq \in Seq(Piece)
      BY <1>0, <1>2, <1>3, <1>5, ConcatProperties
    <3>. QED
      BY <1>0, <1>2, <3>1, ConcatProperties
  <2>3. (t.got \o t.wq) \o <<>> = t.got \o t.wq
    BY <2>2, ConcatEmptySeq
  <2>4. <<>> \o t.inq = t.inq
    <3>1. PICK D : D = 1..MaxData
      OBVIOUS
    <3>2. t.inq \in Seq(D)
      BY <1>4, <3>1
    <3>. QED
      BY <3>2, ConcatEmptySeq
  <2>5. t.got \o t.wq \o r = Pieces(t.from, n)
    BY <1>6, <1>11, <2>1, <2>3, Zenon
  <2>6. told \o Datas(t.inq) = SentFrom(t)
    BY <1>7, <1>11, <2>1, <2>4, Zenon
  <2>7. (en = "fin" /\ r = <<>>) \/ (t.peer = "fin" /\ t.inq = <<>>)
    BY <1>0, <1>8, <1>9, <1>11 DEF Ends
  <2>. QED
    BY <2>5, <2>6, <2>7, Zenon DEF Keeps
<1>12. Ends(f.bufC, f.bufS) => Done(r, n, told, en, t)
  BY <1>0, <1>11, Zenon DEF Done
<1>. QED
  BY <1>10, <1>12, Zenon
-----------------------------------------------------------------------------
(* The same for the state Q, N, G, W, E, K, S of the variables inq, sent,   *)
(* got, wq, end, sock and servers.                                          *)
Flow(e, Q, N, G, W, E, S) ==
  Fits(e, Q[e.client], N[e.client], G[e.client] \o W[e.client], E[e.client], S[e.server])

(* What poll() found for an entry that is still to be looked at holds.      *)
Alarm(e, evC, evS, Q, E, S) == e.status = "FORWARDING" =>
  /\ "in" \in evC => Q[e.client] # <<>> \/ E[e.client] \in {"fin", "reset"}
  /\ "in" \in evS => S[e.server].inq # <<>> \/ S[e.server].peer = "fin"

(* A client that is not accepted yet.                                       *)
Strange(c, Q, N, G, W, E, K) == K[c] = "none" =>
  /\ Q[c] = Pieces(0, N[c]) /\ N[c] <= 2
  /\ G[c] = <<>> /\ W[c] = <<>> /\ E[c] # "reset"

(* A server whose connection has been closed.                               *)
Gone(s, Q, N, G, W, E, K) == ~s.open =>
  /\ K[s.client] = "closed"
  /\ Done(Q[s.client], N[s.client], G[s.client] \o W[s.client], E[s.client], s)

Flows == \A k \in Live : Flow(table[k], inq, sent, got, wq, end, servers)
Heard == \A k \in Live : k > i \/ (k = i /\ pc = "scan") =>
           Alarm(table[k], cev[k], sev[k], inq, end, servers)
Strangers == \A c \in Clients : Strange(c, inq, sent, got, wq, end, sock)
Left == \A n \in DOMAIN servers : Gone(servers[n], inq, sent, got, wq, end, sock)

Streams == Flows /\ Heard /\ Strangers /\ Left

(* Nothing but what belongs to the entry that is looked at has changed.     *)
Others ==
  /\ \A c \in Clients : c # Client => inq'[c] = inq[c] /\ wq'[c] = wq[c] /\ sock'[c] = sock[c]
  /\ \A s \in DOMAIN servers : s # Now.server => servers'[s] = servers[s]
  /\ UNCHANGED <<sent, got, end, cev, sev>>

(* Only a connection that forwards depends on its server.                   *)
LEMMA Elsewhere ==
  \A e, q, n, said, en, s, t : Fits(e, q, n, said, en, s) /\ (e.status = "FORWARDING" => s = t)
                              => Fits(e, q, n, said, en, t)
BY DEF Fits

(* Nobody is served twice.                                                  *)
LEMMA Apart ==
  ASSUME Types, OwnAll, i \in Live
  PROVE  /\ Now = table[i] /\ Client = table[i].client /\ sock[Client] = "open"
         /\ \A k \in Live : k # i =>
              /\ table[k].client \in Clients /\ table[k].client # Client
              /\ table[k].status = "FORWARDING" =>
                   table[k].server \in DOMAIN servers /\ table[k].server # Now.server
<1>1. OwnClients /\ OwnServers /\ NoServer \notin Opened /\ Now = table[i] /\ Client = table[i].client
  BY LiveIsTyped DEF OwnAll, Now, Client
<1>2. ASSUME NEW k \in Live, k # i PROVE table[k].client \in Clients /\ table[k].client # Client
  BY <1>1, <1>2, LiveIsTyped DEF OwnClients
<1>3. ASSUME NEW k \in Live, k # i, table[k].status = "FORWARDING"
      PROVE  table[k].server \in DOMAIN servers /\ table[k].server # Now.server
  <2>1. table[k].server \in Opened /\ servers[table[k].server].client = table[k].client
    BY <1>1, <1>3 DEF OwnServers
  <2>2. Now.server \in Opened => servers[Now.server].client = Client
    BY <1>1 DEF OwnServers
  <2>. QED
    BY <1>2, <1>3, <2>1, <2>2 DEF Opened
<1>. QED
  BY <1>1, <1>2, <1>3 DEF OwnClients

(* An entry that is not looked at stays as it is.                           *)
LEMMA OthersFlow ==
  ASSUME Types, OwnAll, Streams, i \in Live, Others
  PROVE  \A j \in Live : j # i =>
           /\ Flow(table[j], inq', sent', got', wq', end', servers')
           /\ j > i => Alarm(table[j], cev'[j], sev'[j], inq', end', servers')
<1>1. SUFFICES ASSUME NEW j \in Live, j # i
               PROVE  /\ Flow(table[j], inq', sent', got', wq', end', servers')
                      /\ j > i => Alarm(table[j], cev'[j], sev'[j], inq', end', servers')
  OBVIOUS
<1>2. PICK e : e = table[j]
  OBVIOUS
<1>3. /\ e.client \in Clients /\ e.client # Client
      /\ e.status = "FORWARDING" => e.server \in DOMAIN servers /\ e.server # Now.server
  BY <1>1, <1>2, Apart
<1>4. /\ inq'[e.client] = inq[e.client] /\ wq'[e.client] = wq[e.client]
      /\ sent' = sent /\ got' = got /\ end' = end /\ cev' = cev /\ sev' = sev
      /\ e.status = "FORWARDING" => servers'[e.server] = servers[e.server]
  BY <1>3 DEF Others
<1>5. Flow(e, inq, sent, got, wq, end, servers) /\ (j > i => Alarm(e, cev[j], sev[j], inq, end, servers))
  BY <1>1, <1>2 DEF Streams, Flows, Heard
<1>6. Flow(e, inq', sent', got', wq', end', servers')
  BY <1>4, <1>5, Elsewhere DEF Flow
<1>7. j > i => Alarm(e, cev'[j], sev'[j], inq', end', servers')
  BY <1>4, <1>5 DEF Alarm
<1>. QED
  BY <1>2, <1>6, <1>7

(* Servers are added, and closed when what they have sent has been passed.  *)
Closes ==
  /\ \A n \in DOMAIN servers' : n \in DOMAIN servers \/ servers'[n].open
  /\ Now.server \in DOMAIN servers => Gone(servers'[Now.server], inq', sent', got', wq', end', sock')

LEMMA OthersStay ==
  ASSUME Types, OwnAll, Streams, i \in Live, Others, Closes, sock'[Client] # "none"
  PROVE  Strangers' /\ Left'
<1>1. sock[Client] = "open"
  BY Apart
<1>2. ASSUME NEW c \in Clients PROVE Strange(c, inq', sent', got', wq', end', sock')
  <2>1. CASE c = Client
    BY <2>1 DEF Strange
  <2>2. CASE c # Client
    <3>1. /\ inq'[c] = inq[c] /\ wq'[c] = wq[c] /\ sock'[c] = sock[c]
          /\ sent' = sent /\ got' = got /\ end' = end
      BY <2>2 DEF Others
    <3>2. Strange(c, inq, sent, got, wq, end, sock)
      BY DEF Streams, Strangers
    <3>. QED
      BY <3>1, <3>2 DEF Strange
  <2>. QED
    BY <2>1, <2>2
<1>3. ASSUME NEW n \in DOMAIN servers' PROVE Gone(servers'[n], inq', sent', got', wq', end', sock')
  <2>1. CASE servers'[n].open
    BY <2>1 DEF Gone
  <2>2. CASE n \in DOMAIN servers /\ n = Now.server
    BY <2>2 DEF Closes
  <2>3. CASE n \in DOMAIN servers /\ n # Now.server /\ ~servers'[n].open
    <3>1. PICK s \in ServerSocket : s = servers[n]
      BY <2>3 DEF Types, TypeOK, FarTypes
    <3>2. servers'[n] = s /\ ~s.open /\ s.client \in Clients
      BY <2>3, <3>1 DEF Others, ServerSocket
    <3>3. Gone(s, inq, sent, got, wq, end, sock)
      BY <2>3, <3>1 DEF Streams, Left
    <3>4. s.client # Client
      BY <1>1, <3>2, <3>3 DEF Gone
    <3>5. /\ inq'[s.client] = inq[s.client] /\ wq'[s.client] = wq[s.client]
          /\ sock'[s.client] = sock[s.client]
          /\ sent' = sent /\ got' = got /\ end' = end
      BY <3>2, <3>4 DEF Others
    <3>. QED
      BY <3>2, <3>3, <3>5 DEF Gone
  <2>. QED
    BY <2>1, <2>2, <2>3 DEF Closes
<1>. QED
  BY <1>2, <1>3 DEF Strangers, Left

(* The place looked at next, or the one whose request has been read.        *)
GoesOn == (pc' = "scan" /\ i' = i + 1) \/ (pc' # "scan" /\ i' = i)

LEMMA DropFlows ==
  ASSUME Types, OwnAll, Streams, i \in Live, Others, Closes, GoesOn,
         NEW tab, DOMAIN tab = 1..MAX_CONNECTIONS, Drop(tab),
         \A k \in Live : k # i => tab[k] = table[k]
  PROVE  Streams'
<1>1. /\ \A k \in Live' : Came(k) \in Live /\ Came(k) # i /\ table'[k] = table[Came(k)]
      /\ \A j, k \in Live' : Came(j) = Came(k) => j = k
  BY Moves
<1>2. Flows'
  BY <1>1, OthersFlow DEF Flows
<1>3. ASSUME NEW k \in Live', k > i' \/ (k = i' /\ pc' = "scan")
      PROVE  Alarm(table'[k], cev'[k], sev'[k], inq', end', servers')
  <2>1. k \in Int /\ i \in Int
    BY LiveIsTyped DEF Drop, Live
  <2>2. k > i
    BY <1>3, <2>1 DEF GoesOn
  <2>3. Came(k) = k
    BY <2>1, <2>2 DEF Came
  <2>. QED
    BY <1>1, <2>2, <2>3, OthersFlow
<1>4. sock'[Client] # "none"
  <2>1. Client \in Clients /\ sock' = [sock EXCEPT ![Client] = "closed"] /\ sock \in [Clients -> {"none", "open", "closed"}]
    BY LiveIsTyped DEF Client, Drop, Types, TypeOK, KernelTypes
  <2>. QED
    BY <2>1
<1>5. Heard'
  BY <1>3 DEF Heard
<1>. QED
  BY <1>2, <1>4, <1>5, OthersStay DEF Streams

LEMMA SetFlows ==
  ASSUME Types, OwnAll, Streams, i \in Live, Others, Closes, GoesOn, UNCHANGED sock,
         NEW e, Sets(e), Flow(e, inq', sent', got', wq', end', servers')
  PROVE  Streams'
<1>1. i \in 1..MAX_CONNECTIONS /\ table \in Tables
  BY LiveIsTyped DEF Types
<1>2. Live' = Live /\ table'[i] = e /\ \A k \in Live : k # i => table'[k] = table[k]
  BY <1>1 DEF Sets, Tables, Live
<1>3. Flows'
  BY <1>2, OthersFlow DEF Flows
<1>4. ASSUME NEW k \in Live', k > i' \/ (k = i' /\ pc' = "scan")
      PROVE  Alarm(table'[k], cev'[k], sev'[k], inq', end', servers')
  <2>1. k \in Int /\ i \in Int /\ k \in Live
    <3>1. k \in Live /\ Live \subseteq 1..MAX_CONNECTIONS
      BY <1>2, LiveIsTyped
    <3>. QED
      BY <1>1, <3>1
  <2>2. k > i
    BY <1>4, <2>1 DEF GoesOn
  <2>. QED
    BY <1>2, <2>1, <2>2, OthersFlow
<1>5. sock'[Client] # "none"
  BY Apart
<1>6. Heard'
  BY <1>4 DEF Heard
<1>. QED
  BY <1>3, <1>5, <1>6, OthersStay DEF Streams

(* The entry that is looked at.                                             *)
LEMMA Here ==
  ASSUME Types, OwnAll, Streams, i \in Live
  PROVE  /\ Now \in Sound /\ Now \in Connection /\ Client = Now.client /\ Client \in Clients
         /\ i \in 1..MAX_CONNECTIONS /\ table \in Tables /\ DOMAIN table = 1..MAX_CONNECTIONS
         /\ inq[Client] \in Seq(Piece) /\ sent[Client] \in Counts
         /\ got[Client] \in Seq(Message) /\ wq[Client] \in Seq(Message)
         /\ got[Client] \o wq[Client] \in Seq(Message)
         /\ Fits(Now, inq[Client], sent[Client], got[Client] \o wq[Client], end[Client], servers[Now.server])
         /\ sock[Client] = "open"
<1>1. Now = table[i] /\ Client = table[i].client /\ table \in Tables /\ Client \in Clients /\ Now \in Sound
  BY LiveIsTyped DEF Now, Client, Types
<1>2. inq[Client] \in Seq(Piece) /\ wq[Client] \in Seq(Message) /\ got[Client] \in Seq(Message)
      /\ sent[Client] \in Counts
  BY <1>1 DEF Types, TypeOK, KernelTypes, PeersTypes, Counts
<1>3. got[Client] \o wq[Client] \in Seq(Message)
  BY <1>2, ConcatProperties
<1>4. Flow(Now, inq, sent, got, wq, end, servers)
  BY <1>1 DEF Streams, Flows
<1>5. i \in 1..MAX_CONNECTIONS /\ DOMAIN table = 1..MAX_CONNECTIONS
  BY <1>1, LiveIsTyped DEF Tables
<1>6. sock[Client] = "open"
  BY Apart
<1>7. Now.client = Client
  BY <1>1
<1>8. Fits(Now, inq[Client], sent[Client], got[Client] \o wq[Client], end[Client], servers[Now.server])
  BY <1>4, <1>7 DEF Flow
<1>. QED
  BY <1>1, <1>2, <1>3, <1>5, <1>6, <1>7, <1>8 DEF Sound

(* A client that is there is told what is written to it.                    *)
LEMMA Told ==
  ASSUME Types, OwnAll, Streams, i \in Live, NEW replies \in Seq(Message), Answers(Client, replies), UNCHANGED got
  PROVE  /\ \A c \in Clients : c # Client => wq'[c] = wq[c]
         /\ got'[Client] \o wq'[Client] = IF end[Client] # "reset"
                                          THEN (got[Client] \o wq[Client]) \o replies
                                          ELSE got[Client] \o wq[Client]
<1>1. /\ Client \in Clients /\ sock[Client] = "open"
      /\ got[Client] \in Seq(Message) /\ wq[Client] \in Seq(Message)
  BY Here
<1>2. wq \in [Clients -> Seq(Message)]
  BY DEF Types, TypeOK, KernelTypes
<1>3. \A c \in Clients : c # Client => wq'[c] = wq[c]
  BY <1>2 DEF Answers
<1>4. wq'[Client] = IF end[Client] # "reset" THEN wq[Client] \o replies ELSE wq[Client]
  BY <1>1, <1>2 DEF Answers
<1>5. (got[Client] \o wq[Client]) \o replies = got[Client] \o (wq[Client] \o replies)
  BY <1>1, MessagesAssociate, Zenon
<1>. QED
  BY <1>3, <1>4, <1>5, Zenon

LEMMA EarlyCloses ==
  ASSUME Types, OwnAll, i \in Live, Now.status # "FORWARDING", UNCHANGED servers
  PROVE  Closes
<1>1. Now.server = NoServer
  BY DEF OwnAll, OwnServers, Now
<1>2. servers \in Seq(ServerSocket)
  BY DEF Types, TypeOK, FarTypes
<1>3. 0 \notin DOMAIN servers
  BY <1>2, LenProperties
<1>. QED
  BY <1>1, <1>3 DEF Closes, NoServer

LEMMA GreetingFlows ==
  ASSUME Types, OwnAll, Streams,
         \/ IncomingHangup \/ IncomingEnds \/ IncomingReads \/ AuthFailure \/ AuthSuccess
         \/ RequestEnds \/ RequestReads
  PROVE  Streams'
<1>1. /\ i \in Live /\ Now.status \notin {"RESOLVING", "FORWARDING"}
      /\ UNCHANGED <<sent, got, end, servers, cev, sev>>
  BY DEF IncomingHangup, IncomingEnds, IncomingReads, AuthFailure, AuthSuccess,
       RequestEnds, RequestReads, At, far, Now, peers, NextEntry
<1>2. Closes
  BY <1>1, EarlyCloses
<1>3. /\ inq \in [Clients -> Seq(Piece)] /\ sock \in [Clients -> {"none", "open", "closed"}]
      /\ wq \in [Clients -> Seq(Message)]
  BY DEF Types, TypeOK, KernelTypes
<1>4. Others
  BY <1>1, <1>3 DEF Others, IncomingHangup, IncomingEnds, IncomingReads, AuthFailure, AuthSuccess,
       RequestEnds, RequestReads, Drop, Answers
<1>5. GoesOn
  BY DEF GoesOn, IncomingHangup, IncomingEnds, IncomingReads, AuthFailure, AuthSuccess,
       RequestEnds, RequestReads, NextEntry
<1>6. Drop(table) => Streams'
  BY <1>1, <1>2, <1>4, <1>5, DropFlows, Here
<1>7. CASE IncomingHangup \/ IncomingEnds \/ AuthFailure \/ RequestEnds
  BY <1>6, <1>7 DEF IncomingHangup, IncomingEnds, AuthFailure, RequestEnds
<1>8. CASE IncomingReads
  <2>1. CASE plan[Client].version # 5
    BY <1>6, <1>8, <2>1 DEF IncomingReads
  <2>2. CASE plan[Client].version = 5
    <3>1. PICK status \in {"INCOMING", "AUTH_SUCCESS", "AUTH_FAILURE"} :
            /\ Sets([Now EXCEPT !.bufC = Now.bufC \o inq[Client], !.status = status])
            /\ status = "AUTH_SUCCESS" => Has(Now.bufC \o inq[Client], 2)
      BY <1>8, <2>2 DEF IncomingReads
    <3>2. PICK f : f = [Now EXCEPT !.bufC = Now.bufC \o inq[Client], !.status = status]
      OBVIOUS
    <3>3. /\ f.client = Client /\ f.server = Now.server /\ f.status = status
          /\ f.bufC = Now.bufC \o inq[Client]
      BY <1>1, <3>2, Here DEF Connection
    <3>4. Fits(f, <<>>, sent[Client], got[Client] \o wq[Client], end[Client], servers[Now.server])
      <4>1. PICK e, q, n, said, en, s :
              /\ e \in Sound /\ q \in Seq(Piece) /\ n \in Counts /\ e = Now /\ q = inq[Client] /\ n = sent[Client] /\ said = got[Client] \o wq[Client]
              /\ en = end[Client] /\ s = servers[Now.server] /\ Fits(e, q, n, said, en, s)
        BY <1>1, Here, Zenon
      <4>2. e.status = "INCOMING" /\ Adds(f, e, q)
        BY <1>8, <3>3, <4>1 DEF IncomingReads, At, Now, Adds
      <4>3. \/ f.status = "INCOMING"
            \/ f.status = "AUTH_SUCCESS" /\ Has(f.bufC, 2)
            \/ f.status = "AUTH_FAILURE"
        BY <3>1, <3>3
      <4>4. Fits(f, <<>>, n, said, en, s)
        BY <4>1, <4>2, <4>3, GreetingFits
      <4>. QED
        BY <4>1, <4>4, Zenon
    <3>5. inq'[Client] = <<>> /\ wq' = wq
      BY <1>1, <1>3, <1>8, Here DEF IncomingReads
    <3>6. Flow(f, inq', sent', got', wq', end', servers')
      BY <1>1, <3>3, <3>4, <3>5 DEF Flow
    <3>7. Sets(f) /\ UNCHANGED sock
      BY <1>8, <2>2, <3>1, <3>2 DEF IncomingReads
    <3>. QED
      BY <1>1, <1>2, <1>4, <1>5, <3>6, <3>7, SetFlows
  <2>. QED
    BY <2>1, <2>2
<1>9. CASE AuthSuccess
  <2>1. PICK f : f = [Now EXCEPT !.status = "SOCK_REQUEST", !.bufC = <<>>]
    OBVIOUS
  <2>2. /\ f.client = Client /\ f.server = Now.server /\ f.status = "SOCK_REQUEST" /\ f.bufC = <<>>
    BY <1>1, <2>1, Here DEF Connection
  <2>3. Answers(Client, <<Reply("welcome")>>) /\ Sets(f) /\ UNCHANGED <<sock, inq>> /\ Now.status = "AUTH_SUCCESS"
    BY <1>9, <2>1 DEF AuthSuccess, At, Now
  <2>4. PICK said, told : said = got[Client] \o wq[Client] /\ told = got'[Client] \o wq'[Client]
    OBVIOUS
  <2>5. told = IF end[Client] # "reset" THEN said \o <<Reply("welcome")>> ELSE said
    BY <1>1, <2>3, <2>4, ReplyIsTyped, Told, Zenon
  <2>6. Fits(Now, inq[Client], sent[Client], said, end[Client], servers[Now.server])
    BY <1>1, <2>4, Here
  <2>7. Fits(f, inq[Client], sent[Client], told, end[Client], servers[Now.server])
    BY <2>2, <2>3, <2>5, <2>6, WelcomeFits
  <2>8. Flow(f, inq', sent', got', wq', end', servers')
    BY <1>1, <2>2, <2>3, <2>4, <2>7 DEF Flow
  <2>. QED
    BY <1>1, <1>2, <1>4, <1>5, <2>3, <2>8, SetFlows
<1>10. CASE RequestReads
  <2>1. PICK read : read = [table EXCEPT ![i].bufC = @ \o inq[Client]]
    OBVIOUS
  <2>2. Now.status = "SOCK_REQUEST" /\ inq'[Client] = <<>>
    BY <1>1, <1>3, <1>10, Here DEF RequestReads, At, Now
  <2>3. CASE plan[Client].cmd # "connect"
    <3>1. Drop(read)
      BY <1>10, <2>1, <2>3 DEF RequestReads
    <3>2. DOMAIN read = 1..MAX_CONNECTIONS /\ \A k \in Live : k # i => read[k] = table[k]
      BY <1>1, <2>1, Here
    <3>. QED
      BY <1>1, <1>2, <1>4, <1>5, <3>1, <3>2, DropFlows
  <2>4. CASE plan[Client].cmd = "connect"
    <3>1. PICK f : f = [Now EXCEPT !.bufC = @ \o inq[Client]]
      OBVIOUS
    <3>2. read = [table EXCEPT ![i] = f]
      BY <2>1, <3>1 DEF Now
    <3>3. Sets(f) /\ UNCHANGED <<sock, wq>>
      BY <1>10, <2>1, <2>4, <3>2 DEF RequestReads, Sets
    <3>4. /\ f.client = Client /\ f.server = Now.server /\ f.status = "SOCK_REQUEST"
          /\ f.bufC = Now.bufC \o inq[Client]
      BY <1>1, <2>2, <3>1, Here DEF Connection
    <3>5. Fits(f, <<>>, sent[Client], got[Client] \o wq[Client], end[Client], servers[Now.server])
      <4>1. PICK e, q, n, said, en, s :
              /\ e \in Sound /\ q \in Seq(Piece) /\ n \in Counts /\ e = Now /\ q = inq[Client] /\ n = sent[Client] /\ said = got[Client] \o wq[Client]
              /\ en = end[Client] /\ s = servers[Now.server] /\ Fits(e, q, n, said, en, s)
        BY <1>1, Here, Zenon
      <4>2. e.status = "SOCK_REQUEST" /\ Adds(f, e, q)
        BY <2>2, <3>4, <4>1 DEF Adds
      <4>3. Fits(f, <<>>, n, said, en, s)
        BY <3>4, <4>1, <4>2, RequestFits
      <4>. QED
        BY <4>1, <4>3, Zenon
    <3>6. Flow(f, inq', sent', got', wq', end', servers')
      BY <1>1, <2>2, <3>3, <3>4, <3>5 DEF Flow
    <3>. QED
      BY <1>1, <1>2, <1>4, <1>5, <3>3, <3>6, SetFlows
  <2>. QED
    BY <2>3, <2>4
<1>. QED
  BY <1>7, <1>8, <1>9, <1>10

(* A server that is opened is given the place of its own entry alone.       *)
LEMMA OpensFlows ==
  ASSUME Types, OwnAll, Streams, i \in Live,
         Taking(Now),
         pc' = "scan", i' = i + 1, UNCHANGED <<sent, got, end, inq, cev, sev>>,
         NEW peer \in {"open", "refused", NoSocket}, Opens(peer)
  PROVE  Streams'
<1>0. Now.status # "FORWARDING"
  BY DEF Taking
<1>1. Now.server = NoServer /\ GoesOn /\ inq \in [Clients -> Seq(Piece)]
      /\ sock \in [Clients -> {"none", "open", "closed"}]
      /\ servers \in Seq(ServerSocket) /\ NoServer \notin DOMAIN servers
  <2>1. servers \in Seq(ServerSocket)
    BY DEF Types, TypeOK, FarTypes
  <2>2. 0 \notin DOMAIN servers
    BY <2>1, LenProperties
  <2>. QED
    BY <1>0, <2>1, <2>2 DEF OwnAll, OwnServers, Now, GoesOn, Types, TypeOK, KernelTypes, NoServer
<1>2. PICK replies \in Seq(Message) :
        /\ Answers(Client, replies)
        /\ peer # NoSocket => replies = <<Reply("granted")>>
  BY ReplyIsTyped DEF Opens
<1>3. /\ \A c \in Clients : c # Client => wq'[c] = wq[c]
      /\ got'[Client] \o wq'[Client] = IF end[Client] # "reset"
                                       THEN (got[Client] \o wq[Client]) \o replies
                                       ELSE got[Client] \o wq[Client]
  BY <1>2, Told
<1>4. CASE peer = NoSocket
  <2>1. Drop(table) /\ UNCHANGED servers
    BY <1>4 DEF Opens
  <2>2. Others /\ Closes
    BY <1>0, <1>1, <1>3, <2>1, EarlyCloses DEF Others, Drop
  <2>. QED
    BY <1>1, <2>1, <2>2, DropFlows, Here
<1>5. CASE peer # NoSocket
  <2>1. PICK f : f = [Now EXCEPT !.server = Len(servers) + 1, !.status = "FORWARDING",
                                 !.bufC = <<>>, !.bufS = <<>>]
    OBVIOUS
  <2>2. /\ f.client = Client /\ f.server = Len(servers) + 1 /\ f.status = "FORWARDING"
        /\ f.bufC = <<>> /\ f.bufS = <<>>
    BY <2>1, Here DEF Connection
  <2>3. servers' = Append(servers, Server(Now, peer)) /\ Sets(f) /\ UNCHANGED sock
    BY <1>5, <2>1 DEF Opens
  <2>4. PICK new \in ServerSocket : new = Server(Now, peer)
    BY <1>5, Here, ServerIsTyped
  <2>5. /\ servers'[f.server] = new /\ \A n \in DOMAIN servers : servers'[n] = servers[n]
        /\ \A n \in DOMAIN servers' : n \in DOMAIN servers \/ n = f.server
    <3>1. /\ Len(servers') = Len(servers) + 1 /\ servers' \in Seq(ServerSocket)
          /\ servers'[Len(servers) + 1] = new /\ \A n \in 1..Len(servers) : servers'[n] = servers[n]
      BY <1>1, <2>3, <2>4, AppendProperties
    <3>2. DOMAIN servers = 1..Len(servers) /\ DOMAIN servers' = 1..(Len(servers) + 1) /\ Len(servers) \in Nat
      BY <1>1, <3>1, LenProperties
    <3>. QED
      BY <2>2, <3>1, <3>2
  <2>6. Others
    BY <1>3, <2>3, <2>5 DEF Others
  <2>7. Closes
    <3>1. new.open
      BY <2>4 DEF Server
    <3>. QED
      BY <1>1, <2>5, <3>1 DEF Closes
  <2>8. PICK e, q, n, said, en, s :
          /\ e \in Sound /\ q \in Seq(Piece) /\ e = Now /\ q = inq[Client] /\ n = sent[Client]
          /\ said = got[Client] \o wq[Client]
          /\ en = end[Client] /\ s = servers[Now.server] /\ Fits(e, q, n, said, en, s)
    BY Here, Zenon
  <2>9. PICK told : told = got'[Client] \o wq'[Client]
    OBVIOUS
  <2>10. en # "reset" => told = said \o <<Reply("granted")>>
    BY <1>2, <1>3, <1>5, <2>8, <2>9, Zenon
  <2>11. Fits(f, q, n, told, en, Server(Now, peer))
    <3>1. Taking(e)
      BY <2>8, Zenon
    <3>2. Grants(told, said, en)
      BY <2>10 DEF Grants
    <3>. QED
      BY <2>2, <2>8, <3>1, <3>2, OpenFits
  <2>12. Flow(f, inq', sent', got', wq', end', servers')
    BY <2>2, <2>4, <2>5, <2>8, <2>9, <2>11, Zenon DEF Flow
  <2>. QED
    BY <1>1, <2>3, <2>6, <2>7, <2>12, SetFlows
<1>. QED
  BY <1>4, <1>5

LEMMA WholeIs ==
  ASSUME Now.status = "SOCK_REQUEST", TRUE \in Whole(Now)
  PROVE  /\ "ip" \in Type(Now) => Has(Now.bufC, 6)
         /\ "name" \in Type(Now) => Has(Now.bufC, 5) /\ plan[Client].atyp = "name"
<1>1. Now.client = Client
  BY DEF Now, Client
<1>2. /\ Type(Now) = {plan[Client].atyp}
      /\ Whole(Now) = {Has(Now.bufC, IF plan[Client].atyp = "name" THEN 5 ELSE 6)}
  BY <1>1, Zenon DEF Whole, Type, IsRequest
<1>3. CASE plan[Client].atyp = "name"
  <2>1. Whole(Now) = {Has(Now.bufC, 5)} /\ Type(Now) = {"name"}
    BY <1>2, <1>3
  <2>. QED
    BY <1>3, <2>1
<1>4. CASE plan[Client].atyp # "name"
  <2>1. Whole(Now) = {Has(Now.bufC, 6)} /\ "name" \notin Type(Now)
    BY <1>2, <1>4
  <2>. QED
    BY <2>1
<1>. QED
  BY <1>3, <1>4

LEMMA AddressFlows ==
  ASSUME Types, OwnAll, Streams, pc = "parse", RequestAddress \/ RequestName \/ RequestOther
  PROVE  Streams'
<1>1. /\ i \in Live /\ Now.status = "SOCK_REQUEST" /\ pc' = "scan" /\ i' = i + 1 /\ GoesOn
      /\ UNCHANGED <<sent, got, end, inq, cev, sev>>
  BY DEF Types, Scans, OwnAll, Handled, Now, RequestAddress, RequestName, RequestOther, NextEntry, peers, GoesOn
<1>2. sock \in [Clients -> {"none", "open", "closed"}] /\ wq \in [Clients -> Seq(Message)]
  BY DEF Types, TypeOK, KernelTypes
<1>3. UNCHANGED servers => Closes
  BY <1>1, EarlyCloses
<1>4. ASSUME NEW replies, Answers(Client, replies), Drop(table), UNCHANGED servers
      PROVE  Streams'
  <2>1. Others
    BY <1>1, <1>2, <1>4 DEF Others, Answers, Drop
  <2>. QED
    BY <1>1, <1>3, <1>4, <2>1, DropFlows, Here
<1>5. CASE RequestOther
  BY <1>4, <1>5 DEF RequestOther, far
<1>6. TRUE \in Whole(Now) =>
        /\ "ip" \in Type(Now) => Has(Now.bufC, 6)
        /\ "name" \in Type(Now) => Has(Now.bufC, 5) /\ plan[Client].atyp = "name"
  BY <1>1, WholeIs
<1>7. CASE RequestAddress
  <2>1. Taking(Now) /\ \E peer \in {"open", "refused", NoSocket} : Opens(peer)
    BY <1>1, <1>6, <1>7, Zenon DEF RequestAddress, Taking
  <2>. QED
    BY <1>1, <2>1, OpensFlows
<1>8. CASE RequestName
  <2>1. UNCHANGED servers /\ Has(Now.bufC, 5)
    BY <1>1, <1>6, <1>8, Zenon DEF RequestName
  <2>2. CASE /\ resolvers' \in {resolvers, Append(resolvers, "leaked")}
             /\ Answers(Client, <<Reply("refused")>>) /\ Drop(table)
    BY <1>4, <2>1, <2>2
  <2>3. CASE /\ resolvers' = Append(resolvers, "running")
             /\ Sets([Now EXCEPT !.status = "RESOLVING", !.R = Len(resolvers) + 1])
             /\ UNCHANGED <<sock, wq>>
    <3>1. PICK f : f = [Now EXCEPT !.status = "RESOLVING", !.R = Len(resolvers) + 1]
      OBVIOUS
    <3>2. /\ f.client = Client /\ f.server = Now.server /\ f.status = "RESOLVING" /\ Sets(f)
          /\ f.bufC = Now.bufC
      BY <1>1, <2>3, <3>1, Here DEF Connection
    <3>3. PICK e, q, n, said, en, s :
            /\ e \in Sound /\ q \in Seq(Piece) /\ e = Now /\ q = inq[Client] /\ n = sent[Client]
            /\ said = got[Client] \o wq[Client]
            /\ en = end[Client] /\ s = servers[Now.server] /\ Fits(e, q, n, said, en, s)
      BY <1>1, Here, Zenon
    <3>4. e.status = "SOCK_REQUEST" /\ Has(e.bufC, 5) /\ f.bufC = e.bufC
      BY <1>1, <2>1, <3>2, <3>3, Zenon
    <3>5. Fits(f, q, n, said, en, s)
      BY <3>2, <3>3, <3>4, NameFits
    <3>6. Flow(f, inq', sent', got', wq', end', servers')
      BY <1>1, <2>1, <2>3, <3>2, <3>3, <3>5, Zenon DEF Flow
    <3>7. Others
      BY <1>1, <2>1, <2>3 DEF Others
    <3>. QED
      BY <1>1, <1>3, <2>1, <2>3, <3>2, <3>6, <3>7, SetFlows
  <2>. QED
    BY <1>8, <2>2, <2>3 DEF RequestName
<1>. QED
  BY <1>5, <1>7, <1>8

LEMMA ResolvingFlows ==
  ASSUME Types, OwnAll, Streams, ResolvingAnswered \/ ResolvingFails
  PROVE  Streams'
<1>1. /\ i \in Live /\ Now.status = "RESOLVING" /\ pc' = "scan" /\ i' = i + 1 /\ GoesOn
      /\ UNCHANGED <<sent, got, end, inq, cev, sev>>
  BY DEF Now, ResolvingAnswered, ResolvingFails, NextEntry, peers, At, GoesOn
<1>2. CASE ResolvingAnswered
  <2>1. Taking(Now) /\ \E peer \in {"open", "refused", NoSocket} : Opens(peer)
    BY <1>1, <1>2 DEF ResolvingAnswered, Taking
  <2>. QED
    BY <1>1, <2>1, OpensFlows
<1>3. CASE ResolvingFails
  <2>1. Answers(Client, <<Reply("refused")>>) /\ Drop(table) /\ UNCHANGED servers
    BY <1>3 DEF ResolvingFails
  <2>2. sock \in [Clients -> {"none", "open", "closed"}] /\ wq \in [Clients -> Seq(Message)]
    BY DEF Types, TypeOK, KernelTypes
  <2>3. Others
    BY <1>1, <2>1, <2>2 DEF Others, Answers, Drop
  <2>4. Closes
    BY <1>1, <2>1, EarlyCloses
  <2>. QED
    BY <1>1, <2>1, <2>3, <2>4, DropFlows, Here
<1>. QED
  BY <1>2, <1>3

LEMMA ForwardingFlows ==
  ASSUME Types, Serving, OwnAll, Streams, Forwarding
  PROVE  Streams'
<1>1. /\ pc = "scan" /\ i \in Live /\ Now.status = "FORWARDING" /\ GoesOn
      /\ Now.server \in 1..Len(servers)
      /\ servers' = [servers EXCEPT ![Now.server] = NewServer]
      /\ IF ToC THEN Answers(Client, ToClient) ELSE UNCHANGED wq
      /\ inq' = [inq EXCEPT ![Client] = IF Now.bufC = <<>> /\ "in" \in cev[i] THEN <<>> ELSE @]
      /\ IF Ends(BufC, BufS) THEN Drop([table EXCEPT ![i] = NewEntry])
         ELSE Sets(NewEntry) /\ UNCHANGED sock
      /\ UNCHANGED <<sent, got, end, cev, sev>>
  BY ForwardingSteps DEF NextEntry, peers, GoesOn
<1>2. /\ servers \in Seq(ServerSocket) /\ DOMAIN servers = 1..Len(servers)
      /\ sock \in [Clients -> {"none", "open", "closed"}] /\ wq \in [Clients -> Seq(Message)]
      /\ inq \in [Clients -> Seq(Piece)]
  <2>1. servers \in Seq(ServerSocket)
    BY DEF Types, TypeOK, FarTypes
  <2>. QED
    BY <2>1, LenProperties DEF Types, TypeOK, KernelTypes
<1>3. servers[Now.server] \in ServerSocket /\ servers[Now.server].client = Client
  <2>1. servers[Now.server].client = Client
    BY <1>1 DEF OwnAll, OwnServers, Now, Client
  <2>. QED
    BY <1>1, <1>2, <2>1
<1>4. /\ ReadC \in Seq(Piece) \cup {EOF} /\ (ToS => ReadC \in Seq(Piece))
      /\ ReadS \in Seq(1..MaxData) \cup {EOF} /\ (ToC => ReadS \in Seq(1..MaxData))
      /\ NewServer \in ServerSocket
  BY <1>1, <1>3, BuffersAreTyped, Here
<1>5. PICK new \in ServerSocket : new = NewServer
  BY <1>4
<1>6. /\ new.got = servers[Now.server].got /\ new.peer = servers[Now.server].peer
      /\ new.from = servers[Now.server].from
      /\ new.sent = servers[Now.server].sent /\ new.client = Client
      /\ new.inq = Taken(Now.bufS, sev[i], servers[Now.server].inq)
      /\ new.wq = IF Writable(ReadC, sev[i]) /\ servers[Now.server].peer # "refused"
                  THEN servers[Now.server].wq \o ReadC ELSE servers[Now.server].wq
      /\ new.open <=> ~Ends(BufC, BufS)
  BY <1>3, <1>5 DEF NewServer, ServerSocket, Taken, ToS
<1>7. servers'[Now.server] = new /\ \A s \in DOMAIN servers : s # Now.server => servers'[s] = servers[s]
  BY <1>1, <1>2, <1>5
<1>8. PICK f : f = NewEntry
  OBVIOUS
<1>9. /\ f.client = Client /\ f.server = Now.server /\ f.status = "FORWARDING"
      /\ f.bufC = BufC /\ f.bufS = BufS
  BY <1>1, <1>8, Here DEF NewEntry, Connection
<1>10. inq'[Client] = Taken(Now.bufC, cev[i], inq[Client])
       /\ \A c \in Clients : c # Client => inq'[c] = inq[c]
  BY <1>1, <1>2, Here DEF Taken
<1>11. /\ \A c \in Clients : c # Client => wq'[c] = wq[c]
       /\ end[Client] # "reset" =>
            got'[Client] \o wq'[Client] = IF Writable(ReadS, cev[i])
                                          THEN (got[Client] \o wq[Client]) \o Datas(ReadS)
                                          ELSE got[Client] \o wq[Client]
  <2>1. CASE ToC
    <3>1. ToClient = Datas(ReadS) /\ ToClient \in Seq(Message)
      BY <1>4, <2>1, DatasProperties DEF ToClient, Datas
    <3>2. Answers(Client, ToClient) /\ UNCHANGED got
      BY <1>1, <2>1
    <3>. QED
      BY <1>1, <2>1, <3>1, <3>2, Told, Zenon DEF ToC
  <2>2. CASE ~ToC
    BY <1>1, <2>2, Zenon DEF ToC
  <2>. QED
    BY <2>1, <2>2
<1>12. Alarm(Now, cev[i], sev[i], inq, end, servers)
  BY <1>1 DEF Streams, Heard, Now
<1>13. PICK e, q, n, said, en, s, told, r :
         /\ e \in Sound /\ q \in Seq(Piece) /\ n \in Counts /\ said \in Seq(Message) /\ s \in ServerSocket
         /\ e = Now /\ q = inq[Client] /\ n = sent[Client] /\ said = got[Client] \o wq[Client]
         /\ en = end[Client] /\ s = servers[Now.server] /\ Fits(e, q, n, said, en, s)
         /\ told = got'[Client] \o wq'[Client] /\ r = inq'[Client]
  BY <1>1, <1>3, Here, Zenon
<1>14. Fits(f, r, n, told, en, new) /\ (Ends(f.bufC, f.bufS) => Done(r, n, told, en, new))
  <2>1. PICK evC, evS, readC, readS : evC = cev[i] /\ evS = sev[i] /\ readC = ReadC /\ readS = ReadS
    OBVIOUS
  <2>2. /\ "in" \in evC => q # <<>> \/ en \in {"fin", "reset"}
        /\ "in" \in evS => s.inq # <<>> \/ s.peer = "fin"
    BY <1>1, <1>12, <1>13, <2>1, Here DEF Alarm
  <2>3. readC = ReadFrom(e.bufC, evC, q) /\ readS = ReadFrom(e.bufS, evS, s.inq)
    BY <1>13, <2>1 DEF ReadC, ReadS
  <2>4. /\ f.bufC = IF ~Writable(readC, evS) THEN readC ELSE IF s.peer = "refused" THEN EOF ELSE <<>>
        /\ f.bufS = IF ~Writable(readS, evC) THEN readS ELSE IF en = "reset" THEN EOF ELSE <<>>
    BY <1>9, <1>13, <2>1, Zenon DEF BufC, BufS, ToC, ToS
  <2>5. Writes(new, s, e, evS, readC) /\ Says(told, said, evC, readS, en) /\ r = Taken(e.bufC, evC, q)
    BY <1>6, <1>10, <1>11, <1>13, <2>1, Zenon DEF Writes, Says
  <2>6. e.status = "FORWARDING"
    BY <1>1, <1>13
  <2>. QED
    <3>1. /\ e \in Sound /\ q \in Seq(Piece) /\ n \in Counts /\ said \in Seq(Message) /\ s \in ServerSocket
          /\ Fits(e, q, n, said, en, s) /\ f.status = "FORWARDING"
      BY <1>9, <1>13, Zenon
    <3>. QED
      BY <2>2, <2>3, <2>4, <2>5, <2>6, <3>1, ForwardFits
<1>15. Flow(f, inq', sent', got', wq', end', servers')
  BY <1>1, <1>7, <1>9, <1>13, <1>14, Zenon DEF Flow
<1>16. Others
  <2>1. \A c \in Clients : c # Client => sock'[c] = sock[c]
    BY <1>1, <1>2 DEF Drop
  <2>. QED
    BY <1>1, <1>7, <1>10, <1>11, <2>1 DEF Others
<1>17. Ends(BufC, BufS) => sock'[Client] = "closed"
  BY <1>1, <1>2, Here DEF Drop
<1>18. Gone(new, inq', sent', got', wq', end', sock')
  <2>1. SUFFICES ASSUME ~new.open PROVE Gone(new, inq', sent', got', wq', end', sock')
    BY Zenon DEF Gone
  <2>2. Ends(f.bufC, f.bufS) /\ sock'[Client] = "closed"
    BY <1>6, <1>9, <1>17, <2>1
  <2>3. Done(inq'[Client], sent'[Client], got'[Client] \o wq'[Client], end'[Client], new)
    BY <1>1, <1>13, <1>14, <2>2, Zenon
  <2>. QED
    BY <1>6, <2>2, <2>3, Zenon DEF Gone
<1>19. Closes
  <2>1. DOMAIN servers' = DOMAIN servers
    BY <1>1, <1>2
  <2>. QED
    BY <1>7, <1>18, <2>1 DEF Closes
<1>20. CASE Ends(BufC, BufS)
  <2>1. PICK tab : tab = [table EXCEPT ![i] = NewEntry]
    OBVIOUS
  <2>2. Drop(tab) /\ DOMAIN tab = 1..MAX_CONNECTIONS /\ \A k \in Live : k # i => tab[k] = table[k]
    BY <1>1, <1>20, <2>1, Here
  <2>. QED
    BY <1>1, <1>16, <1>19, <2>2, DropFlows
<1>21. CASE ~Ends(BufC, BufS)
  <2>1. Sets(f) /\ UNCHANGED sock
    BY <1>1, <1>8, <1>21
  <2>. QED
    BY <1>1, <1>15, <1>16, <1>19, <2>1, SetFlows
<1>. QED
  BY <1>20, <1>21

-----------------------------------------------------------------------------
(* Between the handlers.                                                    *)

(* Nothing is passed over by a handler that does nothing.                   *)
LEMMA SkipsFlow ==
  ASSUME Types, OwnAll, Streams, UNCHANGED <<conns, kernel, servers, peers>>,
         \/ UNCHANGED <<cev, sev>> /\ (UNCHANGED <<pc, i>> \/ (pc' = "dead" /\ i' = i) \/ (i \in Int /\ i' = i + 1))
         \/ Again
         \/ Poll
  PROVE  Streams'
<1>1. UNCHANGED <<table, count, sock, inq, wq, servers, end, sent, got>>
  BY DEF conns, kernel, peers
<1>2. Live' = Live
  BY <1>1 DEF Live
<1>3. Flows' /\ Strangers' /\ Left'
  BY <1>1, <1>2 DEF Streams, Flows, Strangers, Left
<1>4. CASE UNCHANGED <<cev, sev>> /\ (UNCHANGED <<pc, i>> \/ (pc' = "dead" /\ i' = i) \/ (i \in Int /\ i' = i + 1))
  <2>1. ASSUME NEW k \in Live, k > i' \/ (k = i' /\ pc' = "scan") PROVE k > i \/ (k = i /\ pc = "scan")
    <3>1. k \in Int
      BY LiveIsTyped
    <3>. QED
      BY <1>4, <2>1, <3>1
  <2>2. Heard'
    BY <1>1, <1>2, <1>4, <2>1 DEF Streams, Heard
  <2>. QED
    BY <1>3, <2>2 DEF Streams
<1>5. /\ cev \in [1..(MAX_CONNECTIONS + 1) -> Events] /\ sev \in [1..(MAX_CONNECTIONS + 1) -> Events]
      /\ Live \subseteq 1..(MAX_CONNECTIONS + 1)
  <2>1. Live \subseteq 1..MAX_CONNECTIONS /\ MAX_CONNECTIONS \in Nat
    BY LiveIsTyped
  <2>2. \A k \in 1..MAX_CONNECTIONS : k \in 1..(MAX_CONNECTIONS + 1)
    BY <2>1
  <2>. QED
    BY <2>1, <2>2 DEF Types, TypeOK, ProxyTypes
<1>6. CASE Again
  <2>1. \A k \in Live : cev'[k] = {} /\ sev'[k] = {}
    BY <1>5, <1>6 DEF Again
  <2>2. Heard'
    BY <1>2, <2>1 DEF Heard, Alarm
  <2>. QED
    BY <1>3, <2>2 DEF Streams
<1>7. CASE Poll
  <2>1. \A k \in Live : cev'[k] = ClientEvents(table[k]) /\ sev'[k] = ServerEvents(table[k])
    BY <1>5, <1>7 DEF Poll
  <2>2. ASSUME NEW k \in Live PROVE Alarm(table[k], cev'[k], sev'[k], inq, end, servers)
    <3>1. PICK e : e = table[k] /\ e.client \in Clients /\ sock[e.client] = "open"
      BY LiveIsTyped DEF OwnAll, OwnClients
    <3>2. end[e.client] \in {"open", "fin", "reset"}
      BY <3>1 DEF OwnAll, Waiting, Types, TypeOK, PeersTypes
    <3>3. "in" \in ClientEvents(e) => inq[e.client] # <<>> \/ end[e.client] # "open"
      BY DEF ClientEvents
    <3>4. "in" \in ServerEvents(e) => servers[e.server].inq # <<>> \/ servers[e.server].peer = "fin"
      BY DEF ServerEvents
    <3>. QED
      BY <2>1, <3>1, <3>2, <3>3, <3>4 DEF Alarm
  <2>3. Heard'
    BY <1>1, <1>2, <2>2 DEF Heard
  <2>. QED
    BY <1>3, <2>3 DEF Streams
<1>. QED
  BY <1>4, <1>6, <1>7

LEMMA AcceptFlows ==
  ASSUME Types, OwnAll, Streams, Accept
  PROVE  Streams'
<1>1. /\ backlog # <<>> /\ count >= 0 /\ Again
      /\ UNCHANGED <<inq, wq, servers, end, sent, got>>
  BY DEF Accept, Signalled, peers, far
<1>2. PICK c \in Clients :
        /\ c = Head(backlog) /\ sock[c] = "none"
        /\ table' = [table EXCEPT ![count + 1] = Entry(c)]
        /\ count' = count + 1
        /\ sock' = [sock EXCEPT ![c] = "open"]
  <2>1. backlog \in Seq(Clients)
    BY DEF Types, TypeOK, KernelTypes
  <2>2. Head(backlog) \in Clients /\ 1 \in DOMAIN backlog /\ Head(backlog) = backlog[1]
    <3>1. Len(backlog) # 0 /\ Len(backlog) \in Nat /\ DOMAIN backlog = 1..Len(backlog)
      BY <1>1, <2>1, EmptySeq, LenProperties
    <3>2. Head(backlog) \in Clients /\ Head(backlog) = backlog[1]
      BY <1>1, <2>1, HeadTailProperties
    <3>. QED
      BY <3>1, <3>2
  <2>3. sock[Head(backlog)] = "none"
    BY <2>2 DEF OwnAll, Waiting
  <2>. QED
    BY <2>2, <2>3 DEF Accept
<1>3. /\ Live' = Live \cup {count + 1} /\ count + 1 \notin Live /\ Live' \subseteq 1..(MAX_CONNECTIONS + 1)
      /\ table'[count + 1] = Entry(c) /\ \A k \in Live : table'[k] = table[k]
  <2>1. count \in Nat /\ count + 1 \in 1..MAX_CONNECTIONS /\ MAX_CONNECTIONS \in Nat
    <3>1. count \in Int /\ Room /\ Len(backlog) \in Nat /\ Len(backlog) >= 1
      <4>1. backlog \in Seq(Clients)
        BY DEF Types, TypeOK, KernelTypes
      <4>2. Len(backlog) # 0 /\ Len(backlog) \in Nat
        BY <1>1, <4>1, EmptySeq, LenProperties
      <4>. QED
        BY <4>2, LiveIsTyped DEF Types
    <3>. QED
      BY <1>1, <3>1, Bounds DEF Room
  <2>2. table \in Tables
    BY DEF Types
  <2>. QED
    BY <1>2, <2>1, <2>2, LiveIsTyped DEF Live, Tables
<1>4. Strange(c, inq, sent, got, wq, end, sock)
  BY DEF Streams, Strangers
<1>5. /\ inq[c] = Pieces(0, sent[c]) /\ sent[c] <= 2 /\ sent[c] \in Counts
      /\ got[c] \o wq[c] = <<>>
  <2>1. got[c] = <<>> /\ wq[c] = <<>> /\ <<>> \in Seq(Message)
    BY <1>2, <1>4, EmptySeq DEF Strange
  <2>2. got[c] \o wq[c] = <<>>
    BY <2>1, ConcatEmptySeq
  <2>. QED
    BY <1>2, <1>4, <2>2 DEF Strange, Types, TypeOK, PeersTypes, Counts
<1>6. Flow(Entry(c), inq, sent, got, wq, end, servers)
  <2>1. PICK f : f = Entry(c)
    OBVIOUS
  <2>2. f.client = c
    BY <2>1 DEF Entry
  <2>3. Fits(f, inq[c], sent[c], <<>>, end[c], servers[f.server])
    BY <1>5, <2>1, NewFits
  <2>. QED
    BY <1>5, <2>1, <2>2, <2>3, Zenon DEF Flow
<1>7. Flows'
  <2>1. ASSUME NEW k \in Live' PROVE Flow(table'[k], inq, sent, got, wq, end, servers)
    BY <1>3, <1>6 DEF Streams, Flows
  <2>. QED
    BY <1>1, <2>1 DEF Flows
<1>8. Heard'
  <2>1. \A k \in Live' : cev'[k] = {} /\ sev'[k] = {}
    BY <1>1, <1>3 DEF Again, Types, TypeOK, ProxyTypes
  <2>. QED
    BY <2>1 DEF Heard, Alarm
<1>9. sock \in [Clients -> {"none", "open", "closed"}]
  BY DEF Types, TypeOK, KernelTypes
<1>10. Strangers'
  <2>1. ASSUME NEW d \in Clients PROVE Strange(d, inq, sent, got, wq, end, sock')
    <3>1. Strange(d, inq, sent, got, wq, end, sock)
      BY DEF Streams, Strangers
    <3>2. sock'[d] = "none" => sock[d] = "none"
      BY <1>2, <1>9
    <3>. QED
      BY <3>1, <3>2 DEF Strange
  <2>. QED
    BY <1>1, <2>1 DEF Strangers
<1>11. Left'
  <2>1. ASSUME NEW n \in DOMAIN servers PROVE Gone(servers[n], inq, sent, got, wq, end, sock')
    <3>1. Gone(servers[n], inq, sent, got, wq, end, sock)
      BY DEF Streams, Left
    <3>2. servers[n].client \in Clients
      <4>1. servers[n] \in ServerSocket
        BY DEF Types, TypeOK, FarTypes
      <4>. QED
        BY <4>1 DEF ServerSocket
    <3>3. sock[servers[n].client] = "closed" => sock'[servers[n].client] = "closed"
      BY <1>2, <1>9, <3>2
    <3>. QED
      BY <3>1, <3>3 DEF Gone
  <2>. QED
    BY <1>1, <2>1 DEF Left
<1>. QED
  BY <1>7, <1>8, <1>10, <1>11 DEF Streams

(* A step of one client.                                                    *)
LEMMA ClientFlows ==
  ASSUME Types, OwnAll, Streams, NEW c \in Clients, UNCHANGED <<proxy, conns, far, sock>>,
         \A d \in Clients : d # c =>
           inq'[d] = inq[d] /\ wq'[d] = wq[d] /\ got'[d] = got[d] /\ sent'[d] = sent[d] /\ end'[d] = end[d],
         \A k \in Live : table[k].client = c => Flow(table[k], inq', sent', got', wq', end', servers),
         inq[c] # <<>> => inq'[c] # <<>>, end[c] \in {"fin", "reset"} => end'[c] \in {"fin", "reset"},
         Strange(c, inq', sent', got', wq', end', sock),
         sock[c] = "closed" => /\ inq'[c] = inq[c] /\ sent'[c] = sent[c] /\ end'[c] = end[c]
                               /\ got'[c] \o wq'[c] = got[c] \o wq[c]
  PROVE  Streams'
<1>1. /\ UNCHANGED <<pc, i, cev, sev, table, count, servers, sock>> /\ Live' = Live
  BY DEF proxy, conns, far, Live
<1>2. ASSUME NEW k \in Live
      PROVE  /\ Flow(table[k], inq', sent', got', wq', end', servers)
             /\ Alarm(table[k], cev[k], sev[k], inq, end, servers) =>
                  Alarm(table[k], cev[k], sev[k], inq', end', servers)
  <2>1. PICK e : e = table[k] /\ e.client \in Clients
    BY LiveIsTyped
  <2>2. CASE e.client = c
    BY <2>1, <2>2 DEF Alarm
  <2>3. CASE e.client # c
    <3>1. Flow(e, inq, sent, got, wq, end, servers)
      BY <2>1 DEF Streams, Flows
    <3>2. /\ inq'[e.client] = inq[e.client] /\ wq'[e.client] = wq[e.client] /\ got'[e.client] = got[e.client]
          /\ sent'[e.client] = sent[e.client] /\ end'[e.client] = end[e.client]
      BY <2>1, <2>3
    <3>3. Flow(e, inq', sent', got', wq', end', servers)
      BY <3>1, <3>2, Zenon DEF Flow
    <3>4. Alarm(e, cev[k], sev[k], inq, end, servers) => Alarm(e, cev[k], sev[k], inq', end', servers)
      BY <3>2 DEF Alarm
    <3>. QED
      BY <2>1, <3>3, <3>4
  <2>. QED
    BY <2>2, <2>3
<1>3. Flows' /\ Heard'
  BY <1>1, <1>2 DEF Streams, Flows, Heard
<1>4. ASSUME NEW d \in Clients PROVE Strange(d, inq', sent', got', wq', end', sock)
  <2>1. CASE d = c
    BY <2>1
  <2>2. CASE d # c
    <3>1. Strange(d, inq, sent, got, wq, end, sock)
      BY DEF Streams, Strangers
    <3>. QED
      BY <2>2, <3>1 DEF Strange
  <2>. QED
    BY <2>1, <2>2
<1>5. Strangers'
  BY <1>1, <1>4 DEF Strangers
<1>6. ASSUME NEW n \in DOMAIN servers PROVE Gone(servers[n], inq', sent', got', wq', end', sock)
  <2>1. PICK s : s = servers[n] /\ s.client \in Clients
    <3>1. servers[n] \in ServerSocket
      BY DEF Types, TypeOK, FarTypes
    <3>. QED
      BY <3>1 DEF ServerSocket
  <2>2. Gone(s, inq, sent, got, wq, end, sock)
    BY <2>1 DEF Streams, Left
  <2>3. SUFFICES ASSUME ~s.open PROVE Gone(s, inq', sent', got', wq', end', sock)
    BY <2>1 DEF Gone
  <2>4. sock[s.client] = "closed"
    BY <2>2, <2>3 DEF Gone
  <2>5. /\ inq'[s.client] = inq[s.client] /\ sent'[s.client] = sent[s.client] /\ end'[s.client] = end[s.client]
        /\ got'[s.client] \o wq'[s.client] = got[s.client] \o wq[s.client]
    <3>1. CASE s.client = c
      BY <2>4, <3>1
    <3>2. CASE s.client # c
      BY <2>1, <3>2
    <3>. QED
      BY <3>1, <3>2
  <2>. QED
    BY <2>2, <2>5, Zenon DEF Gone
<1>7. Left'
  BY <1>1, <1>6 DEF Left
<1>. QED
  BY <1>3, <1>5, <1>7 DEF Streams

LEMMA Beginnings ==
  ASSUME NEW g \in Seq(Message), NEW w \in Seq(Message), NEW m \in Message
  PROVE  /\ g \o w = <<>> => g = <<>>
         /\ g \o w = <<m>> => g = <<>> \/ g = <<m>>
<1>1. /\ Len(g) \in Nat /\ Len(w) \in Nat /\ Len(g \o w) = Len(g) + Len(w)
      /\ \A n \in 1..Len(g) : (g \o w)[n] = g[n]
  BY ConcatProperties, LenProperties
<1>2. Len(<<>>) = 0 /\ Len(<<m>>) = 1 /\ <<m>> \in Seq(Message) /\ <<m>>[1] = m
  OBVIOUS
<1>3. ASSUME g \o w = <<>> PROVE g = <<>>
  <2>1. Len(g \o w) = 0
    BY <1>2, <1>3, Zenon
  <2>2. Len(g) = 0
    BY <1>1, <2>1
  <2>. QED
    BY <2>2, EmptySeq
<1>4. ASSUME g \o w = <<m>> PROVE g = <<>> \/ g = <<m>>
  <2>1. Len(g \o w) = 1 /\ (g \o w)[1] = m
    <3>1. PICK u : u = <<m>> /\ Len(u) = 1 /\ u[1] = m
      BY <1>2
    <3>2. g \o w = u
      BY <1>4, <3>1, Zenon
    <3>. QED
      BY <3>1, <3>2, Zenon
  <2>2. Len(g) = 0 \/ Len(g) = 1
    <3>1. PICK x \in Nat, y \in Nat : x = Len(g) /\ y = Len(w)
      BY <1>1
    <3>2. x + y = 1
      BY <1>1, <2>1, <3>1, Zenon
    <3>. QED
      BY <3>1, <3>2
  <2>3. CASE Len(g) = 0
    BY <2>3, EmptySeq
  <2>4. CASE Len(g) = 1
    <3>1. g[1] = m
      BY <1>1, <2>1, <2>4
    <3>2. PICK h \in Seq(Message) : h = <<m>>
      BY <1>2
    <3>3. Len(h) = 1 /\ h[1] = m
      BY <1>2, <3>2
    <3>4. g = h
      BY <2>4, <3>1, <3>3, SeqEqual
    <3>. QED
      BY <3>2, <3>4
  <2>. QED
    BY <2>2, <2>3, <2>4
<1>. QED
  BY <1>3, <1>4
-----------------------------------------------------------------------------
(* The steps of the clients and of the servers.                             *)

(* What a client may send depends on what it has been told.                 *)
LEMMA GoalIs ==
  ASSUME PeersTypes, NEW c \in Clients
  PROVE  /\ Goal(c) \in Counts
         /\ got[c] = <<>> => Goal(c) = 2
         /\ got[c] = <<Reply("welcome")>> => Goal(c) = Handshake
<1>1. plan[c].up \in 0..MaxData /\ MaxData \in Nat
  BY PlanIsTyped, Bounds
<1>2. Goal(c) \in Counts
  BY <1>1 DEF Goal, Counts, Handshake
<1>3. got[c] = <<>> => Goal(c) = 2
  BY DEF Goal, Received
<1>4. ASSUME got[c] = <<Reply("welcome")>> PROVE Goal(c) = Handshake
  <2>1. DOMAIN got[c] = {1} /\ got[c][1].kind = "welcome"
    BY <1>4 DEF Reply
  <2>. QED
    BY <2>1 DEF Goal, Received
<1>. QED
  BY <1>2, <1>3, <1>4

(* A client's entry and its state.                                          *)
LEMMA There ==
  ASSUME Types, OwnAll, Streams, NEW c \in Clients
  PROVE  /\ inq[c] \in Seq(Piece) /\ sent[c] \in Counts /\ got[c] \in Seq(Message) /\ wq[c] \in Seq(Message)
         /\ got[c] \o wq[c] \in Seq(Message)
         /\ inq \in [Clients -> Seq(Piece)] /\ sent \in [Clients -> Counts]
         /\ got \in [Clients -> Seq(Message)] /\ wq \in [Clients -> Seq(Message)]
         /\ end \in [Clients -> {"away", "open", "fin", "reset"}]
         /\ sock \in [Clients -> {"none", "open", "closed"}]
         /\ Strange(c, inq, sent, got, wq, end, sock)
         /\ \A k \in Live : table[k].client = c =>
              /\ sock[c] = "open" /\ table[k] \in Sound
              /\ table[k].status = "FORWARDING" => servers[table[k].server] \in ServerSocket
              /\ Fits(table[k], inq[c], sent[c], got[c] \o wq[c], end[c], servers[table[k].server])
<1>1. /\ inq \in [Clients -> Seq(Piece)] /\ sent \in [Clients -> Counts]
      /\ got \in [Clients -> Seq(Message)] /\ wq \in [Clients -> Seq(Message)]
      /\ end \in [Clients -> {"away", "open", "fin", "reset"}]
      /\ sock \in [Clients -> {"none", "open", "closed"}]
  BY DEF Types, TypeOK, KernelTypes, PeersTypes, Counts
<1>2. inq[c] \in Seq(Piece) /\ sent[c] \in Counts /\ got[c] \in Seq(Message) /\ wq[c] \in Seq(Message)
  BY <1>1
<1>3. got[c] \o wq[c] \in Seq(Message)
  BY <1>2, ConcatProperties
<1>4. Strange(c, inq, sent, got, wq, end, sock)
  BY DEF Streams, Strangers
<1>5. ASSUME NEW k \in Live, table[k].client = c
      PROVE  /\ sock[c] = "open" /\ table[k] \in Sound
             /\ table[k].status = "FORWARDING" => servers[table[k].server] \in ServerSocket
             /\ Fits(table[k], inq[c], sent[c], got[c] \o wq[c], end[c], servers[table[k].server])
  <2>1. Flow(table[k], inq, sent, got, wq, end, servers)
    BY DEF Streams, Flows
  <2>2. sock[c] = "open"
    BY <1>5 DEF OwnAll, OwnClients
  <2>3. table[k].status = "FORWARDING" => table[k].server \in DOMAIN servers
    BY DEF OwnAll, OwnServers, Opened
  <2>4. servers \in Seq(ServerSocket)
    BY DEF Types, TypeOK, FarTypes
  <2>. QED
    BY <1>5, <2>1, <2>2, <2>3, <2>4, LiveIsTyped DEF Flow
<1>. QED
  BY <1>1, <1>2, <1>3, <1>4, <1>5

LEMMA ConnectsFlows ==
  ASSUME Types, OwnAll, Streams, NEW c \in Clients, Connects(c)
  PROVE  Streams'
<1>1. /\ UNCHANGED <<proxy, conns, far, sock, inq, wq, sent, got>> /\ sock[c] = "none"
      /\ end[c] = "away" /\ end' = [end EXCEPT ![c] = "open"]
  BY DEF Connects, OwnAll, Waiting
<1>2. /\ \A d \in Clients : d # c => end'[d] = end[d]
      /\ end'[c] = "open"
      /\ \A k \in Live : table[k].client # c
      /\ Strange(c, inq, sent, got, wq, end, sock)
  BY <1>1, There
<1>3. Strange(c, inq', sent', got', wq', end', sock)
  BY <1>1, <1>2 DEF Strange
<1>. QED
  BY <1>1, <1>2, <1>3, ClientFlows

LEMMA FinishesFlows ==
  ASSUME Types, OwnAll, Streams, NEW c \in Clients, Finishes(c)
  PROVE  Streams'
<1>1. /\ UNCHANGED <<proxy, conns, far, sock, inq, wq, sent, got>> /\ sock[c] # "closed"
      /\ end[c] = "open" /\ end' = [end EXCEPT ![c] = "fin"]
  BY DEF Finishes, kernel
<1>2. /\ \A d \in Clients : d # c => end'[d] = end[d]
      /\ end'[c] = "fin"
      /\ Strange(c, inq, sent, got, wq, end, sock)
  BY <1>1, There
<1>3. Strange(c, inq', sent', got', wq', end', sock)
  BY <1>1, <1>2 DEF Strange
<1>4. ASSUME NEW k \in Live, table[k].client = c
      PROVE  Flow(table[k], inq', sent', got', wq', end', servers)
  <2>1. Fits(table[k], inq[c], sent[c], got[c] \o wq[c], "open", servers[table[k].server])
    BY <1>1, <1>4, There
  <2>2. Fits(table[k], inq[c], sent[c], got[c] \o wq[c], "fin", servers[table[k].server])
    BY <2>1, EndFits
  <2>. QED
    BY <1>1, <1>2, <1>4, <2>2 DEF Flow
<1>. QED
  BY <1>1, <1>2, <1>3, <1>4, ClientFlows

LEMMA ResetsFlows ==
  ASSUME Types, OwnAll, Streams, NEW c \in Clients, Resets(c)
  PROVE  Streams'
<1>1. /\ UNCHANGED <<proxy, conns, far, sock, inq, sent, got>> /\ sock[c] = "open"
      /\ end' = [end EXCEPT ![c] = "reset"] /\ wq' = [wq EXCEPT ![c] = <<>>]
  BY DEF Resets
<1>2. /\ \A d \in Clients : d # c => end'[d] = end[d] /\ wq'[d] = wq[d]
      /\ end'[c] = "reset" /\ wq'[c] = <<>>
  BY <1>1, There
<1>3. Strange(c, inq', sent', got', wq', end', sock)
  BY <1>1 DEF Strange
<1>4. PICK g, w, kept : /\ g \in Seq(Message) /\ w \in Seq(Message) /\ g = got[c] /\ w = wq[c]
                        /\ kept = g
  BY There
<1>5. got'[c] \o wq'[c] = kept
  BY <1>1, <1>2, <1>4, ConcatEmptySeq
<1>6. /\ g \o w = <<>> => kept = <<>>
      /\ g \o w = <<Reply("welcome")>> => kept \in {<<>>, <<Reply("welcome")>>}
  <2>1. Reply("welcome") \in Message
    BY Bounds DEF Reply, Message
  <2>. QED
    BY <1>4, <2>1, Beginnings
<1>7. ASSUME NEW k \in Live, table[k].client = c
      PROVE  Flow(table[k], inq', sent', got', wq', end', servers)
  <2>1. Fits(table[k], inq[c], sent[c], g \o w, end[c], servers[table[k].server])
    BY <1>4, <1>7, There, Zenon
  <2>2. Fits(table[k], inq[c], sent[c], kept, "reset", servers[table[k].server])
    BY <1>6, <2>1, EndFits
  <2>. QED
    BY <1>1, <1>2, <1>5, <1>7, <2>2, Zenon DEF Flow
<1>8. /\ \A d \in Clients : d # c =>
           inq'[d] = inq[d] /\ wq'[d] = wq[d] /\ got'[d] = got[d] /\ sent'[d] = sent[d] /\ end'[d] = end[d]
      /\ inq[c] # <<>> => inq'[c] # <<>>
      /\ end'[c] \in {"fin", "reset"} /\ sock[c] # "closed"
      /\ UNCHANGED <<proxy, conns, far, sock>>
  BY <1>1, <1>2
<1>. QED
  BY <1>3, <1>7, <1>8, ClientFlows

LEMMA ReadsFlows ==
  ASSUME Types, OwnAll, Streams, NEW c \in Clients, Reads(c)
  PROVE  Streams'
<1>1. /\ UNCHANGED <<proxy, conns, far, sock, inq, sent, end>> /\ wq[c] # <<>>
      /\ got' = [got EXCEPT ![c] = Append(@, Head(wq[c]))] /\ wq' = [wq EXCEPT ![c] = Tail(@)]
  BY DEF Reads
<1>2. /\ \A d \in Clients : d # c => got'[d] = got[d] /\ wq'[d] = wq[d]
      /\ got'[c] = Append(got[c], Head(wq[c])) /\ wq'[c] = Tail(wq[c])
  BY <1>1, There
<1>3. got'[c] \o wq'[c] = got[c] \o wq[c]
  <2>1. Append(got[c], Head(wq[c])) \o Tail(wq[c]) = got[c] \o wq[c]
    BY <1>1, There, ReadMoves
  <2>. QED
    BY <1>2, <2>1, Zenon
<1>4. Strange(c, inq', sent', got', wq', end', sock)
  BY <1>1, There DEF Strange
<1>5. ASSUME NEW k \in Live, table[k].client = c
      PROVE  Flow(table[k], inq', sent', got', wq', end', servers)
  <2>1. Fits(table[k], inq[c], sent[c], got[c] \o wq[c], end[c], servers[table[k].server])
    BY <1>5, There
  <2>. QED
    BY <1>1, <1>3, <1>5, <2>1, Zenon DEF Flow
<1>6. inq'[c] = inq[c] /\ sent'[c] = sent[c] /\ end'[c] = end[c]
  BY <1>1
<1>7. /\ \A d \in Clients : d # c =>
           inq'[d] = inq[d] /\ wq'[d] = wq[d] /\ got'[d] = got[d] /\ sent'[d] = sent[d] /\ end'[d] = end[d]
      /\ inq[c] # <<>> => inq'[c] # <<>>
      /\ end[c] \in {"fin", "reset"} => end'[c] \in {"fin", "reset"}
      /\ UNCHANGED <<proxy, conns, far, sock>>
  BY <1>1, <1>2
<1>. QED
  BY <1>3, <1>4, <1>5, <1>6, <1>7, ClientFlows

LEMMA SendsFlows ==
  ASSUME Types, OwnAll, Streams, NEW c \in Clients, Sends(c)
  PROVE  Streams'
<1>1. /\ UNCHANGED <<proxy, conns, far, sock, wq, got, end>> /\ end[c] = "open" /\ sock[c] # "closed"
  BY DEF Sends
<1>2. PICK n \in Counts, goal \in Counts : n = sent[c] /\ goal = Goal(c) /\ n < goal
  <2>1. Goal(c) \in Counts
    BY GoalIs DEF Types, TypeOK
  <2>. QED
    BY <2>1, There DEF Sends
<1>3. n \in Int /\ goal \in Int /\ 0 \in Counts /\ 0 <= n
  BY Bounds DEF Counts, Handshake
<1>4. PICK m \in Counts : n < m /\ m <= goal /\ sent' = [sent EXCEPT ![c] = m]
  <2>1. n + 1 \in Counts /\ n < n + 1 /\ n + 1 <= goal
    BY <1>2, <1>3, Bounds DEF Counts, Handshake
  <2>2. sent' = [sent EXCEPT ![c] = n + 1] \/ sent' = [sent EXCEPT ![c] = goal]
    BY <1>2 DEF Sends
  <2>. QED
    BY <1>2, <1>3, <2>1, <2>2
<1>5. sent'[c] = m /\ \A d \in Clients : d # c => sent'[d] = sent[d]
  BY <1>4, There
<1>6. PICK q, p : /\ q \in Seq(Piece) /\ p \in Seq(Piece) /\ q = inq[c] /\ p = Pieces(n, m)
                  /\ Len(p) = m - n
  <2>1. n \in 0..(Handshake + MaxData) /\ m \in 0..(Handshake + MaxData) /\ n <= m
    BY <1>3, <1>4 DEF Counts
  <2>2. Pieces(n, m) \in Seq(Piece) /\ Len(Pieces(n, m)) = m - n
    BY <2>1, PiecesProperties
  <2>. QED
    BY <2>2, There
<1>7. inq' = [inq EXCEPT ![c] = @ \o p]
  <2>1. inq' = [inq EXCEPT ![c] = @ \o [x \in 1..(sent'[c] - sent[c]) |-> sent[c] + x]]
    BY DEF Sends
  <2>2. p = [x \in 1..(m - n) |-> n + x]
    BY <1>6 DEF Pieces
  <2>. QED
    BY <1>2, <1>5, <2>1, <2>2, Zenon
<1>8. inq'[c] = q \o p /\ \A d \in Clients : d # c => inq'[d] = inq[d]
  <2>1. PICK new : new = q \o p
    OBVIOUS
  <2>2. inq' = [inq EXCEPT ![c] = new]
    BY <1>6, <1>7, <2>1, Zenon
  <2>3. inq \in [Clients -> Seq(Piece)]
    BY There
  <2>4. inq'[c] = new /\ \A d \in Clients : d # c => inq'[d] = inq[d]
    BY <2>2, <2>3
  <2>5. inq'[c] = q \o p
    BY <2>1, <2>4, Zenon
  <2>6. \A d \in Clients : d # c => inq'[d] = inq[d]
    BY <2>4
  <2>. QED
    BY <2>5, <2>6
<1>9. q \o p # <<>>
  <2>1. Len(q \o p) = Len(q) + Len(p) /\ Len(q) \in Nat /\ Len(p) # 0
    <3>1. Len(q \o p) = Len(q) + Len(p) /\ Len(q) \in Nat
      BY <1>6, ConcatProperties, LenProperties
    <3>2. Len(p) # 0
      BY <1>3, <1>4, <1>6 DEF Counts
    <3>. QED
      BY <3>1, <3>2
  <2>2. Len(p) \in Nat
    BY <1>6, LenProperties
  <2>3. Len(q \o p) # 0
    BY <2>1, <2>2
  <2>. QED
    BY <2>3
<1>10. PICK g, w : g \in Seq(Message) /\ w \in Seq(Message) /\ g = got[c] /\ w = wq[c]
  BY There
<1>11. /\ g = <<>> => m <= 2
       /\ g \o w = <<>> => m <= 2
       /\ g \o w = <<Reply("welcome")>> => m <= Handshake
  <2>1. Reply("welcome") \in Message /\ PeersTypes
    BY Bounds DEF Reply, Message, Types, TypeOK
  <2>2. g = <<>> => m <= 2
    BY <1>2, <1>3, <1>4, <1>10, <2>1, GoalIs DEF Counts
  <2>3. g = <<Reply("welcome")>> => m <= Handshake
    BY <1>2, <1>3, <1>4, <1>10, <2>1, GoalIs DEF Counts
  <2>4. g = <<>> => m <= Handshake
    BY <1>3, <2>2 DEF Handshake, Counts
  <2>5. g \o w = <<>> => g = <<>>
    BY <1>10, <2>1, Beginnings
  <2>6. g \o w = <<Reply("welcome")>> => g = <<>> \/ g = <<Reply("welcome")>>
    BY <1>10, <2>1, Beginnings
  <2>. QED
    BY <2>2, <2>3, <2>4, <2>5, <2>6, Zenon
<1>12. Strange(c, inq', sent', got', wq', end', sock)
  <2>1. SUFFICES ASSUME sock[c] = "none" PROVE Strange(c, inq', sent', got', wq', end', sock)
    BY DEF Strange
  <2>2. /\ q = Pieces(0, n) /\ g = <<>> /\ w = <<>>
    <3>1. Strange(c, inq, sent, got, wq, end, sock)
      BY There
    <3>2. inq[c] = Pieces(0, sent[c]) /\ got[c] = <<>> /\ wq[c] = <<>>
      BY <2>1, <3>1 DEF Strange
    <3>3. g = <<>> /\ w = <<>>
      BY <1>10, <3>2, Zenon
    <3>4. q = Pieces(0, sent[c])
      BY <1>6, <3>2, Zenon
    <3>5. q = Pieces(0, n)
      BY <1>2, <3>4, Zenon
    <3>. QED
      BY <3>3, <3>5
  <2>3. Pieces(0, n) \o Pieces(n, m) = Pieces(0, m)
    <3>1. /\ 0 \in 0..(Handshake + MaxData) /\ n \in 0..(Handshake + MaxData)
          /\ m \in 0..(Handshake + MaxData) /\ 0 <= n /\ n <= m
      BY <1>3, <1>4 DEF Counts
    <3>. QED
      BY <3>1, PiecesGrow
  <2>4. inq'[c] = Pieces(0, m)
    BY <1>6, <1>8, <2>2, <2>3, Zenon
  <2>. QED
    BY <1>1, <1>5, <1>10, <1>11, <2>2, <2>4 DEF Strange
<1>13. ASSUME NEW k \in Live, table[k].client = c
       PROVE  Flow(table[k], inq', sent', got', wq', end', servers)
  <2>1. PICK e, said, s : /\ e \in Sound /\ said \in Seq(Message) /\ e = table[k] /\ said = g \o w
                          /\ s = servers[e.server] /\ (e.status = "FORWARDING" => s \in ServerSocket)
                          /\ Fits(e, q, n, said, "open", s)
    <3>1. g \o w \in Seq(Message) /\ g \o w = got[c] \o wq[c]
      BY <1>10, ConcatProperties
    <3>2. /\ table[k] \in Sound
          /\ table[k].status = "FORWARDING" => servers[table[k].server] \in ServerSocket
          /\ Fits(table[k], inq[c], sent[c], got[c] \o wq[c], end[c], servers[table[k].server])
      BY <1>13, There
    <3>. QED
      BY <1>1, <1>2, <1>6, <3>1, <3>2, Zenon
  <2>2. said = <<>> => m <= 2
    BY <1>11, <2>1, Zenon
  <2>3. said = <<Reply("welcome")>> => m <= Handshake
    BY <1>11, <2>1, Zenon
  <2>4. Fits(e, q \o Pieces(n, m), m, said, "open", s)
    BY <1>4, <1>6, <2>1, <2>2, <2>3, SendFits
  <2>5. /\ inq'[c] = q \o Pieces(n, m) /\ got'[c] \o wq'[c] = said /\ end'[c] = "open"
    BY <1>1, <1>6, <1>8, <1>10, <2>1, Zenon
  <2>. QED
    BY <1>5, <1>13, <2>1, <2>4, <2>5, Zenon DEF Flow
<1>. QED
  BY <1>1, <1>5, <1>8, <1>9, <1>12, <1>13, ClientFlows

LEMMA ServersFlow ==
  ASSUME Types, OwnAll, Streams, NEW s \in DOMAIN servers, ServerSends(s) \/ ServerFinishes(s) \/ ServerReads(s)
  PROVE  Streams'
<1>1. /\ UNCHANGED <<pc, i, cev, sev, table, count, inq, sock, wq, end, sent, got>> /\ Live' = Live
  BY DEF ServerSends, ServerFinishes, ServerReads, ServerMoves, proxy, conns, kernel, peers, Live
<1>2. PICK old \in ServerSocket : /\ old = servers[s] /\ servers \in Seq(ServerSocket)
  BY DEF Types, TypeOK, FarTypes
<1>3. PICK new :
        /\ servers' = [servers EXCEPT ![s] = new]
        /\ \/ /\ old.peer = "open" /\ old.open /\ old.sent < plan[old.client].down
              /\ new = [old EXCEPT !.sent = @ + 1, !.inq = Append(@, old.sent + 1)]
           \/ /\ old.peer = "open" /\ old.open /\ new = [old EXCEPT !.peer = "fin"]
           \/ new = [old EXCEPT !.got = @ \o old.wq, !.wq = <<>>]
  BY <1>2 DEF ServerSends, ServerFinishes, ServerReads, ServerMoves
<1>4. /\ servers'[s] = new /\ DOMAIN servers' = DOMAIN servers
      /\ \A t \in DOMAIN servers : t # s => servers'[t] = servers[t]
  BY <1>2, <1>3
<1>5. /\ old.sent < plan[old.client].down => old.sent + 1 <= MaxData
      /\ old.client \in Clients
  <2>1. old.client \in Clients /\ old.sent \in 0..MaxData
    BY DEF ServerSocket
  <2>2. plan[old.client].down \in 0..MaxData
    BY <2>1, PlanIsTyped DEF Types, TypeOK
  <2>. QED
    BY <2>1, <2>2, Bounds
<1>6. /\ new.open = old.open /\ new.client = old.client
      /\ old.inq # <<>> => new.inq # <<>>
      /\ old.peer = "fin" => new.peer = "fin"
  <2>1. Append(old.inq, old.sent + 1) # <<>>
    <3>1. old.inq \in Seq(1..MaxData)
      BY DEF ServerSocket
    <3>. QED
      BY <3>1
  <2>. QED
    BY <1>3, <2>1 DEF ServerSocket
<1>7. ASSUME NEW k \in Live
      PROVE  /\ Flow(table[k], inq, sent, got, wq, end, servers')
             /\ Alarm(table[k], cev[k], sev[k], inq, end, servers) =>
                  Alarm(table[k], cev[k], sev[k], inq, end, servers')
  <2>1. PICK e \in Sound : e = table[k] /\ e.client \in Clients
    BY LiveIsTyped
  <2>2. Flow(e, inq, sent, got, wq, end, servers)
    BY <2>1 DEF Streams, Flows
  <2>3. CASE e.status = "FORWARDING" /\ e.server = s
    <3>1. PICK q, n, said, en :
            /\ q \in Seq(Piece) /\ n \in Counts /\ said \in Seq(Message)
            /\ q = inq[e.client] /\ n = sent[e.client] /\ said = got[e.client] \o wq[e.client]
            /\ en = end[e.client]
      BY ZenonT(30), <2>1, There
    <3>2. Fits(e, q, n, said, en, old)
      BY <1>2, <2>2, <2>3, <3>1, Zenon DEF Flow
    <3>3. Fits(e, q, n, said, en, new)
      <4>1. /\ old.peer = "open" /\ old.sent + 1 <= MaxData =>
                 Fits(e, q, n, said, en, [old EXCEPT !.sent = @ + 1, !.inq = Append(@, old.sent + 1)])
            /\ old.peer # "refused" => Fits(e, q, n, said, en, [old EXCEPT !.peer = "fin"])
            /\ Fits(e, q, n, said, en, [old EXCEPT !.got = @ \o old.wq, !.wq = <<>>])
        BY <2>3, <3>1, <3>2, ServerFits
      <4>2. old.peer = "open" => old.peer # "refused"
        OBVIOUS
      <4>. QED
        BY <1>3, <1>5, <4>1, <4>2, Zenon
    <3>4. Flow(e, inq, sent, got, wq, end, servers')
      BY <1>4, <2>3, <3>1, <3>3, Zenon DEF Flow
    <3>. QED
      BY <1>2, <1>4, <1>6, <2>1, <2>3, <3>4 DEF Alarm
  <2>4. CASE ~(e.status = "FORWARDING" /\ e.server = s)
    <3>1. e.status = "FORWARDING" => servers'[e.server] = servers[e.server]
      <4>1. e.status = "FORWARDING" => e.server \in DOMAIN servers
        BY <2>1 DEF OwnAll, OwnServers, Opened
      <4>. QED
        BY <1>4, <2>4, <4>1
    <3>2. Flow(e, inq, sent, got, wq, end, servers')
      BY <2>2, <3>1, Elsewhere DEF Flow
    <3>. QED
      BY <2>1, <3>1, <3>2 DEF Alarm
  <2>. QED
    BY <2>3, <2>4
<1>8. Flows' /\ Heard'
  BY <1>1, <1>7 DEF Streams, Flows, Heard
<1>9. Strangers'
  BY <1>1 DEF Streams, Strangers, Strange
<1>10. ASSUME NEW n \in DOMAIN servers PROVE Gone(servers'[n], inq, sent, got, wq, end, sock)
  <2>1. Gone(servers[n], inq, sent, got, wq, end, sock)
    BY DEF Streams, Left
  <2>2. CASE n # s
    BY <1>4, <2>1, <2>2
  <2>3. CASE n = s
    <3>1. SUFFICES ASSUME ~old.open PROVE Gone(new, inq, sent, got, wq, end, sock)
      BY <1>4, <1>6, <2>3 DEF Gone
    <3>2. PICK t \in ServerSocket : t = [old EXCEPT !.got = @ \o old.wq, !.wq = <<>>]
      <4>1. old.got \o old.wq \in Seq(Piece) /\ <<>> \in Seq(Piece)
        BY ConcatProperties, EmptySeq DEF ServerSocket
      <4>. QED
        BY <4>1 DEF ServerSocket
    <3>3. /\ new = t
          /\ t.peer = old.peer /\ t.sent = old.sent /\ t.inq = old.inq /\ t.client = old.client
          /\ t.from = old.from
          /\ t.got = old.got \o old.wq /\ t.wq = <<>>
      BY <1>3, <3>1, <3>2 DEF ServerSocket
    <3>4. t.got \o t.wq = old.got \o old.wq
      <4>1. PICK x \in Seq(Piece) : x = old.got \o old.wq
        BY ConcatProperties DEF ServerSocket
      <4>2. x \o <<>> = x
        BY ConcatEmptySeq
      <4>. QED
        BY <3>3, <4>1, <4>2
    <3>5. sock[old.client] = "closed" /\ Done(inq[old.client], sent[old.client],
             got[old.client] \o wq[old.client], end[old.client], old)
      BY <1>2, <2>1, <2>3, <3>1, Zenon DEF Gone
    <3>6. Done(inq[old.client], sent[old.client],
             got[old.client] \o wq[old.client], end[old.client], t)
      BY <3>3, <3>4, <3>5 DEF Done, SentFrom
    <3>. QED
      BY <3>3, <3>5, <3>6, Zenon DEF Gone
  <2>. QED
    BY <2>2, <2>3
<1>11. Left'
  BY <1>1, <1>4, <1>10 DEF Left
<1>. QED
  BY <1>8, <1>9, <1>11 DEF Streams
LEMMA StreamsInit == Init => Streams
<1>. SUFFICES ASSUME Init PROVE Streams
  OBVIOUS
<1>1. Live = {} /\ servers = <<>>
  BY DEF Init, Live
<1>2. ASSUME NEW c \in Clients PROVE Strange(c, inq, sent, got, wq, end, sock)
  <2>1. 0 \in 0..(Handshake + MaxData)
    BY Bounds DEF Handshake
  <2>2. Pieces(0, 0) \in Seq(Piece) /\ Len(Pieces(0, 0)) = 0
    BY <2>1, PiecesProperties
  <2>3. Pieces(0, 0) = <<>>
    BY <2>2, EmptySeq
  <2>. QED
    BY <2>3 DEF Init, Strange
<1>3. Flows /\ Heard /\ Left
  BY <1>1 DEF Flows, Heard, Left
<1>. QED
  BY <1>2, <1>3 DEF Streams, Strangers

LEMMA AroundFlows ==
  ASSUME Types, OwnAll, Streams, Around
  PROVE  Streams'
<1>1. CASE \E c \in Clients : ClientMoves(c) \/ Reads(c)
  BY <1>1, ConnectsFlows, SendsFlows, FinishesFlows, ResetsFlows, ReadsFlows DEF ClientMoves
<1>2. CASE \E s \in DOMAIN servers : ServerSends(s) \/ ServerFinishes(s) \/ ServerReads(s)
  BY <1>2, ServersFlow
<1>3. CASE \E r \in DOMAIN resolvers : TimePasses(r)
  <2>1. UNCHANGED <<conns, kernel, servers, peers>> /\ UNCHANGED <<pc, i, cev, sev>>
    BY <1>3 DEF TimePasses, proxy
  <2>. QED
    BY <2>1, SkipsFlow
<1>. QED
  BY <1>1, <1>2, <1>3 DEF Around

LEMMA StreamsNext ==
  ASSUME Types, Serving, Own, ~stray => Streams, [Next]_vars
  PROVE  (~stray => Streams)'
<1>. SUFFICES ASSUME ~stray' PROVE Streams'
  OBVIOUS
<1>1. ~stray
  BY Unstrayed
<1>2. OwnAll /\ Streams
  BY <1>1 DEF Own
<1>3. CASE \/ Poll \/ Idle \/ RequestShort \/ ResolvingWaits \/ AcceptNone \/ UNCHANGED vars
           \/ KilledReading \/ KilledParsing \/ KilledWriting \/ KilledForwarding
  <2>1. UNCHANGED <<conns, kernel, far, peers>>
    BY <1>3 DEF Poll, Idle, RequestShort, ResolvingWaits, AcceptNone, vars,
       KilledReading, KilledParsing, KilledWriting, KilledForwarding, Dies, Skips
  <2>2. i \in Int
    <3>1. i \in 1..(MAX_CONNECTIONS + 1)
      BY DEF Types, TypeOK, ProxyTypes
    <3>. QED
      BY <3>1
  <2>3. \/ UNCHANGED <<cev, sev>> /\ (UNCHANGED <<pc, i>> \/ (pc' = "dead" /\ i' = i) \/ (i \in Int /\ i' = i + 1))
        \/ Again
        \/ Poll
    BY <1>3, <2>2 DEF Idle, RequestShort, ResolvingWaits, AcceptNone, vars, proxy, NextEntry,
       KilledReading, KilledParsing, KilledWriting, KilledForwarding, Dies, Skips
  <2>4. UNCHANGED servers
    BY <2>1 DEF far
  <2>. QED
    BY <1>2, <2>1, <2>3, <2>4, SkipsFlow
<1>4. CASE \/ IncomingHangup \/ IncomingEnds \/ IncomingReads \/ AuthFailure \/ AuthSuccess
           \/ RequestEnds \/ RequestReads
  BY <1>2, <1>4, GreetingFlows
<1>5. CASE RequestAddress \/ RequestName \/ RequestOther
  <2>1. pc = "parse"
    BY <1>5 DEF RequestAddress, RequestName, RequestOther, Parses, Strays
  <2>. QED
    BY <1>2, <1>5, <2>1, AddressFlows
<1>6. CASE ResolvingAnswered \/ ResolvingFails
  BY <1>2, <1>6, ResolvingFlows
<1>7. CASE Forwarding
  BY <1>2, <1>7, ForwardingFlows
<1>8. CASE Accept
  BY <1>2, <1>8, AcceptFlows
<1>9. CASE Around
  BY <1>2, <1>9, AroundFlows
<1>. QED
  BY <1>3, <1>4, <1>5, <1>6, <1>7, <1>8, <1>9 DEF Next, Proxy

-----------------------------------------------------------------------------
(* A client that is not slow sends its request at once.  What is in an      *)
(* entry's buffer is then none of it or all; a name is being looked for     *)
(* only for a client that asks for one.                                     *)
Prompt(e) == e.status \in {"SOCK_REQUEST", "RESOLVING"} =>
  /\ plan[e.client].slow \/ e.bufC = <<>> \/ Has(e.bufC, Handshake)
  /\ e.status = "RESOLVING" => plan[e.client].atyp = "name"
AllPrompt(tab) == \A k \in 1..MAX_CONNECTIONS : Prompt(tab[k])

SentPromptly == \A c \in Clients : plan[c].slow \/ sent[c] \in {0, 2} \/ sent[c] >= Handshake
TakenPromptly == \A n \in DOMAIN servers : WholeUnlessSlow(servers[n])
Promptness == AllPrompt(table) /\ SentPromptly /\ TakenPromptly

LEMMA PlanIsKept ==
  ASSUME [Next]_vars
  PROVE  /\ plan' = plan
         /\ sent' = sent \/ \E c \in Clients : Sends(c)
  BY DEF Next, Proxy, Around, Poll, Idle, IncomingHangup, IncomingEnds, IncomingReads, AuthFailure,
       AuthSuccess, RequestEnds, RequestReads, RequestShort, RequestAddress, RequestName, RequestOther,
       ResolvingAnswered, ResolvingFails, ResolvingWaits, Forwarding, KilledReading, KilledParsing,
       KilledWriting, KilledForwarding, Accept, AcceptNone, Skips, Dies, vars, peers,
       ClientMoves, Connects, Finishes, Resets, Reads, ServerSends, ServerFinishes, ServerReads,
       ServerMoves, TimePasses, Sends

LEMMA SentPromptlyNext ==
  ASSUME Types, SentPromptly, [Next]_vars
  PROVE  SentPromptly'
<1>1. plan' = plan /\ (sent' = sent \/ \E c \in Clients : Sends(c))
  BY PlanIsKept
<1>2. CASE sent' = sent
  BY <1>1, <1>2 DEF SentPromptly
<1>3. ASSUME NEW c \in Clients, Sends(c) PROVE SentPromptly'
  <2>1. sent \in [Clients -> Counts]
    BY DEF Types, TypeOK, PeersTypes, Counts
  <2>2. sent' = [sent EXCEPT ![c] = IF plan[c].slow THEN @ + 1 ELSE Goal(c)]
    BY <1>3 DEF Sends
  <2>3. Goal(c) = 2 \/ Goal(c) >= Handshake
    <3>1. plan[c].up \in 0..MaxData /\ MaxData \in Nat
      BY PlanIsTyped, Bounds DEF Types, TypeOK
    <3>. QED
      BY <3>1 DEF Goal, Handshake
  <2>. QED
    BY <1>1, <2>1, <2>2, <2>3 DEF SentPromptly
<1>. QED
  BY <1>1, <1>2, <1>3

LEMMA PlacesArePrompt ==
  ASSUME table \in Tables, i \in 1..MAX_CONNECTIONS, AllPrompt(table)
  PROVE  /\ \A e : Prompt(e) => AllPrompt([table EXCEPT ![i] = e])
         /\ \A e : Prompt(e) => AllPrompt(Dropped([table EXCEPT ![i] = e]))
         /\ AllPrompt(Dropped(table))
<1>1. ASSUME NEW e, Prompt(e) PROVE AllPrompt([table EXCEPT ![i] = e])
  BY <1>1 DEF AllPrompt, Tables
<1>2. ASSUME NEW tab, DOMAIN tab = 1..MAX_CONNECTIONS, AllPrompt(tab) PROVE AllPrompt(Dropped(tab))
  <2>1. \A k \in 1..MAX_CONNECTIONS : \E j \in 1..MAX_CONNECTIONS : Dropped(tab)[k] = tab[j]
    BY <1>2 DEF Dropped
  <2>. QED
    BY <1>2, <2>1 DEF AllPrompt
<1>3. DOMAIN table = 1..MAX_CONNECTIONS /\ \A e : DOMAIN [table EXCEPT ![i] = e] = 1..MAX_CONNECTIONS
  BY DEF Tables
<1>. QED
  BY <1>1, <1>2, <1>3

(* A server is opened for a client that is slow, or whose request has been  *)
(* taken as a whole.                                                        *)
LEMMA OpensPromptly ==
  ASSUME Types, OwnAll, Streams, Promptness, i \in Live, plan' = plan,
         (Now.status = "SOCK_REQUEST" /\ Has(Now.bufC, 6)) \/ Now.status = "RESOLVING",
         NEW peer \in {"open", "refused", NoSocket}, Opens(peer)
  PROVE  AllPrompt(table') /\ TakenPromptly'
<1>1. Now \in Sound /\ Client = Now.client /\ i \in 1..MAX_CONNECTIONS /\ table \in Tables
      /\ Client \in Clients
  BY Here
<1>2. servers \in Seq(ServerSocket) /\ Len(servers) \in Nat /\ DOMAIN servers = 1..Len(servers)
  <2>1. servers \in Seq(ServerSocket)
    BY DEF Types, TypeOK, FarTypes
  <2>. QED
    BY <2>1, LenProperties
<1>3. CASE peer = NoSocket
  <2>1. table' = Dropped(table) /\ servers' = servers
    BY <1>3 DEF Opens, Drop
  <2>. QED
    BY <1>1, <2>1, PlacesArePrompt DEF Promptness, TakenPromptly, WholeUnlessSlow
<1>4. CASE peer # NoSocket
  <2>1. PICK e : e = [Now EXCEPT !.server = Len(servers) + 1, !.status = "FORWARDING",
                                 !.bufC = <<>>, !.bufS = <<>>]
    OBVIOUS
  <2>2. table' = [table EXCEPT ![i] = e] /\ servers' = Append(servers, Server(Now, peer))
    BY <1>4, <2>1 DEF Opens, Sets
  <2>3. e.status = "FORWARDING"
    BY <1>1, <2>1 DEF Sound, Connection
  <2>4. AllPrompt(table')
    BY <1>1, <2>2, <2>3, PlacesArePrompt DEF Promptness, Prompt
  <2>5. PICK new \in ServerSocket : new = Server(Now, peer)
    BY <1>1, <1>4, ServerIsTyped
  <2>6. WholeUnlessSlow(new)
    <3>1. new.from = LastPiece(Now) /\ new.client = Client
      BY <1>1, <2>5 DEF Server
    <3>2. SUFFICES ASSUME ~Has(Now.bufC, 6) PROVE plan[Client].atyp = "name" /\ plan[Client].slow
      BY <3>1 DEF WholeUnlessSlow, LastPiece, Handshake
    <3>3. Now.status = "RESOLVING" /\ Prompt(Now)
      BY <1>1, <3>2 DEF Promptness, AllPrompt, Now
    <3>4. Has(Now.bufC, 5)
      <4>1. Asks(Now, inq[Client], sent[Client], got[Client] \o wq[Client], end[Client])
        BY Here DEF Fits
      <4>. QED
        BY <3>3, <4>1 DEF Asks, Handshake
    <3>5. Now.bufC # <<>>
      BY <3>4 DEF Has
    <3>. QED
      BY <1>1, <3>2, <3>3, <3>5 DEF Prompt, Handshake
  <2>7. ASSUME NEW n \in DOMAIN servers' PROVE WholeUnlessSlow(servers'[n])
    <3>1. Len(servers') = Len(servers) + 1 /\ DOMAIN servers' = 1..Len(servers')
          /\ servers'[Len(servers) + 1] = new /\ \A m \in 1..Len(servers) : servers'[m] = servers[m]
      BY <1>2, <2>2, <2>5
    <3>2. CASE n \in DOMAIN servers
      BY <1>2, <3>1, <3>2 DEF Promptness, TakenPromptly
    <3>3. CASE n = Len(servers) + 1
      BY <2>6, <3>1, <3>3
    <3>. QED
      BY <1>2, <2>7, <3>1, <3>2, <3>3
  <2>8. TakenPromptly'
    BY <2>7 DEF TakenPromptly, WholeUnlessSlow
  <2>. QED
    BY <2>4, <2>8
<1>. QED
  BY <1>3, <1>4

(* What is read of a request is all of it.                                  *)
LEMMA ReadsPromptly ==
  ASSUME Types, OwnAll, Streams, Promptness, i \in Live, Now.status = "SOCK_REQUEST", inq[Client] # <<>>
  PROVE  Prompt([Now EXCEPT !.bufC = @ \o inq[Client]])
<1>1. PICK e, q, n :
        /\ e \in Sound /\ q \in Seq(Piece) /\ n \in Counts /\ e = Now /\ q = inq[Client] /\ n = sent[Client]
        /\ Asks(e, q, n, got[Client] \o wq[Client], end[Client])
  BY Here, Zenon DEF Fits
<1>2. PICK f : f = [Now EXCEPT !.bufC = e.bufC \o q]
  OBVIOUS
<1>3. f.client = Client /\ f.status = "SOCK_REQUEST" /\ f.bufC = e.bufC \o q
  BY <1>1, <1>2, Here DEF Connection
<1>4. e.bufC \in Seq(Piece) /\ e.bufC \o q = Pieces(2, n) /\ n \in 2..Handshake /\ q # <<>>
  BY <1>1 DEF Asks
<1>5. ASSUME ~plan[Client].slow PROVE Has(f.bufC, Handshake)
  <2>1. Client \in Clients /\ (n \in {0, 2} \/ n >= Handshake)
    BY <1>1, <1>5, Here DEF Promptness, SentPromptly
  <2>2. Len(e.bufC \o q) = Len(e.bufC) + Len(q) /\ Len(e.bufC) \in Nat /\ Len(q) \in Nat /\ Len(q) # 0
    <3>1. PICK b \in Seq(Piece) : b = e.bufC
      BY <1>4
    <3>2. Len(b \o q) = Len(b) + Len(q) /\ Len(b) \in Nat /\ Len(q) \in Nat
      BY <1>1, ConcatProperties, LenProperties
    <3>3. Len(q) # 0
      BY <1>1, <1>4, EmptySeq
    <3>. QED
      BY <3>1, <3>2, <3>3
  <2>3. 2 \in 0..(Handshake + MaxData) /\ n \in 0..(Handshake + MaxData) /\ 2 <= n /\ n \in Int
    BY <1>1, <1>4, Bounds DEF Counts, Handshake
  <2>4. Len(Pieces(2, n)) = n - 2 /\ Pieces(2, n) \in Seq(Piece)
        /\ \A x \in 1..(n - 2) : Pieces(2, n)[x] = 2 + x
    BY <2>3, PiecesProperties
  <2>5. n = Handshake
    BY <1>4, <2>1, <2>2, <2>3, <2>4 DEF Handshake
  <2>6. Pieces(2, n)[4] = Handshake /\ 4 \in DOMAIN Pieces(2, n)
    BY <2>4, <2>5, LenProperties DEF Handshake
  <2>. QED
    BY <1>3, <1>4, <2>6 DEF Has
<1>6. Prompt(f)
  BY <1>3, <1>5 DEF Prompt
<1>. QED
  BY <1>1, <1>2, <1>6

LEMMA PromptNext ==
  ASSUME Types, Serving, Own, ~stray => Streams, ~stray => Promptness, [Next]_vars
  PROVE  (~stray => Promptness)'
<1>. SUFFICES ASSUME ~stray' PROVE Promptness'
  OBVIOUS
<1>1. ~stray /\ OwnAll /\ Streams /\ Promptness
  BY Unstrayed DEF Own
<1>2. plan' = plan /\ SentPromptly'
  BY <1>1, PlanIsKept, SentPromptlyNext DEF Promptness
<1>. SUFFICES AllPrompt(table') /\ TakenPromptly'
  BY <1>2, Zenon DEF Promptness, AllPrompt, Prompt
<1>3. UNCHANGED servers => TakenPromptly'
  BY <1>1, <1>2 DEF Promptness, TakenPromptly, WholeUnlessSlow
<1>4. AllPrompt(table) /\ table \in Tables
  BY <1>1 DEF Promptness, Types
<1>5. ASSUME i \in Live
      PROVE  /\ Now \in Sound /\ Now = table[i] /\ i \in 1..MAX_CONNECTIONS /\ Client = Now.client
             /\ \A e : Prompt(e) => AllPrompt([table EXCEPT ![i] = e])
             /\ \A e : Prompt(e) => AllPrompt(Dropped([table EXCEPT ![i] = e]))
             /\ AllPrompt(Dropped(table))
  <2>1. Now \in Sound /\ i \in 1..MAX_CONNECTIONS /\ Client = Now.client
    BY <1>1, <1>5, Here
  <2>. QED
    BY <1>4, <2>1, PlacesArePrompt DEF Now
<1>6. CASE \/ Poll \/ Idle \/ RequestShort \/ ResolvingWaits \/ AcceptNone \/ UNCHANGED vars
           \/ KilledReading \/ KilledParsing \/ KilledWriting \/ KilledForwarding
  <2>1. UNCHANGED <<table, servers>>
    BY <1>6 DEF Poll, Idle, RequestShort, ResolvingWaits, AcceptNone, vars,
       KilledReading, KilledParsing, KilledWriting, KilledForwarding, Dies, Skips, conns, far
  <2>. QED
    BY <1>3, <1>4, <2>1
<1>7. CASE \/ IncomingHangup \/ IncomingEnds \/ IncomingReads \/ AuthFailure \/ AuthSuccess
           \/ RequestEnds \/ RequestReads
  <2>1. i \in Live /\ UNCHANGED servers
    BY <1>7 DEF IncomingHangup, IncomingEnds, IncomingReads, AuthFailure, AuthSuccess,
         RequestEnds, RequestReads, At, far
  <2>2. CASE IncomingHangup \/ IncomingEnds \/ AuthFailure \/ RequestEnds
    BY <1>3, <1>5, <2>1, <2>2 DEF IncomingHangup, IncomingEnds, AuthFailure, RequestEnds, Drop
  <2>3. CASE RequestReads
    <3>1. PICK e : e = [Now EXCEPT !.bufC = @ \o inq[Client]]
      OBVIOUS
    <3>2. Now.status = "SOCK_REQUEST" /\ inq[Client] # <<>>
      BY <2>3 DEF RequestReads, At, Now
    <3>3. Prompt(e)
      BY <1>1, <2>1, <3>1, <3>2, ReadsPromptly
    <3>4. [table EXCEPT ![i].bufC = @ \o inq[Client]] = [table EXCEPT ![i] = e]
      BY <1>4, <1>5, <2>1, <3>1 DEF Tables, Now
    <3>5. table' = [table EXCEPT ![i] = e] \/ table' = Dropped([table EXCEPT ![i] = e])
      BY <2>3, <3>4 DEF RequestReads, Drop
    <3>. QED
      BY <1>3, <1>5, <2>1, <3>3, <3>5
  <2>4. CASE AuthSuccess
    <3>1. PICK e : e = [Now EXCEPT !.status = "SOCK_REQUEST", !.bufC = <<>>]
      OBVIOUS
    <3>2. Prompt(e)
      BY <1>5, <2>1, <3>1 DEF Prompt, Sound, Connection
    <3>. QED
      BY <1>3, <1>5, <2>1, <2>4, <3>1, <3>2 DEF AuthSuccess, Sets
  <2>5. CASE IncomingReads
    <3>1. CASE plan[Client].version = 5
      <4>1. PICK status \in {"INCOMING", "AUTH_SUCCESS", "AUTH_FAILURE"} :
              Sets([Now EXCEPT !.bufC = Now.bufC \o inq[Client], !.status = status])
        BY <2>5, <3>1 DEF IncomingReads
      <4>2. PICK e : e = [Now EXCEPT !.bufC = Now.bufC \o inq[Client], !.status = status]
        OBVIOUS
      <4>3. Prompt(e)
        BY <1>5, <2>1, <4>2 DEF Prompt, Sound, Connection
      <4>. QED
        BY <1>3, <1>5, <2>1, <4>1, <4>2, <4>3 DEF Sets
    <3>2. CASE plan[Client].version # 5
      BY <1>3, <1>5, <2>1, <2>5, <3>2 DEF IncomingReads, Drop
    <3>. QED
      BY <3>1, <3>2
  <2>. QED
    BY <1>7, <2>2, <2>3, <2>4, <2>5
<1>8. CASE RequestAddress \/ RequestName \/ RequestOther
  <2>1. pc = "parse" /\ i \in Live /\ Now.status = "SOCK_REQUEST"
    <3>1. pc = "parse"
      BY <1>8 DEF RequestAddress, RequestName, RequestOther, Parses, Strays
    <3>. QED
      BY <1>1, <3>1 DEF Types, Scans, OwnAll, Handled, Now
  <2>2. CASE RequestAddress
    <3>1. Has(Now.bufC, 6) /\ \E peer \in {"open", "refused", NoSocket} : Opens(peer)
      BY <2>1, <2>2, WholeIs, Zenon DEF RequestAddress
    <3>. QED
      BY <1>1, <1>2, <2>1, <3>1, OpensPromptly
  <2>3. CASE RequestName
    <3>1. plan[Client].atyp = "name" /\ UNCHANGED servers
      BY <2>1, <2>3, WholeIs, Zenon DEF RequestName
    <3>2. PICK e : e = [Now EXCEPT !.status = "RESOLVING", !.R = Len(resolvers) + 1]
      OBVIOUS
    <3>3. e.client = Client /\ e.bufC = Now.bufC /\ Prompt(Now)
      BY <1>4, <1>5, <2>1, <3>2 DEF Sound, Connection, AllPrompt
    <3>4. Prompt(e)
      BY <1>5, <2>1, <3>1, <3>3 DEF Prompt
    <3>5. table' = [table EXCEPT ![i] = e] \/ table' = Dropped(table)
      BY <2>3, <3>2 DEF RequestName, Sets, Drop
    <3>. QED
      BY <1>3, <1>5, <2>1, <3>1, <3>4, <3>5
  <2>4. CASE RequestOther
    BY <1>3, <1>5, <2>1, <2>4 DEF RequestOther, Drop, far
  <2>. QED
    BY <1>8, <2>2, <2>3, <2>4
<1>9. CASE ResolvingAnswered \/ ResolvingFails
  <2>1. i \in Live /\ Now.status = "RESOLVING"
    BY <1>9 DEF ResolvingAnswered, ResolvingFails, At, Now
  <2>2. CASE ResolvingAnswered
    <3>1. \E peer \in {"open", "refused", NoSocket} : Opens(peer)
      BY <2>2 DEF ResolvingAnswered
    <3>. QED
      BY <1>1, <1>2, <2>1, <3>1, OpensPromptly
  <2>3. CASE ResolvingFails
    BY <1>3, <1>5, <2>1, <2>3 DEF ResolvingFails, Drop
  <2>. QED
    BY <1>9, <2>2, <2>3
<1>10. CASE Forwarding
  <2>1. /\ i \in Live /\ Now.status = "FORWARDING" /\ Now.server \in 1..Len(servers)
        /\ servers' = [servers EXCEPT ![Now.server] = NewServer]
        /\ table' = [table EXCEPT ![i] = NewEntry] \/ table' = Dropped([table EXCEPT ![i] = NewEntry])
    BY <1>10, ForwardingSteps DEF Drop, Sets
  <2>2. Prompt(NewEntry)
    BY <1>5, <2>1 DEF Prompt, NewEntry, Sound, Connection
  <2>3. servers \in Seq(ServerSocket) /\ DOMAIN servers = 1..Len(servers)
    <3>1. servers \in Seq(ServerSocket)
      BY DEF Types, TypeOK, FarTypes
    <3>. QED
      BY <3>1, LenProperties
  <2>4. NewServer.from = servers[Now.server].from /\ NewServer.client = servers[Now.server].client
    BY <2>1, <2>3 DEF NewServer, ServerSocket
  <2>5. TakenPromptly'
    BY <1>1, <1>2, <2>1, <2>3, <2>4 DEF Promptness, TakenPromptly, WholeUnlessSlow
  <2>. QED
    BY <1>5, <2>1, <2>2, <2>5
<1>11. CASE Accept
  <2>1. UNCHANGED servers /\ \E c : table' = [table EXCEPT ![count + 1] = Entry(c)]
    BY <1>11 DEF Accept, far
  <2>2. \A c : Prompt(Entry(c))
    BY DEF Prompt, Entry
  <2>. QED
    BY <1>3, <1>4, <2>1, <2>2 DEF AllPrompt, Tables
<1>12. CASE Around
  <2>1. UNCHANGED table
    BY <1>12 DEF Around, ClientMoves, Connects, Sends, Finishes, Resets, Reads, ServerSends,
         ServerFinishes, ServerReads, ServerMoves, TimePasses, conns
  <2>2. \/ UNCHANGED servers
        \/ \E s \in DOMAIN servers : \E new :
             servers' = [servers EXCEPT ![s] = new] /\ new.client = servers[s].client /\ new.from = servers[s].from
    <3>1. ASSUME NEW s \in DOMAIN servers, ServerSends(s) \/ ServerFinishes(s) \/ ServerReads(s)
          PROVE  \E new : /\ servers' = [servers EXCEPT ![s] = new]
                          /\ new.client = servers[s].client /\ new.from = servers[s].from
      <4>1. servers[s] \in ServerSocket
        BY DEF Types, TypeOK, FarTypes
      <4>. QED
        BY <3>1, <4>1 DEF ServerSends, ServerFinishes, ServerReads, ServerMoves, ServerSocket
    <3>. QED
      BY <1>12, <3>1 DEF Around, ClientMoves, Connects, Sends, Finishes, Resets, Reads, TimePasses, far
  <2>3. TakenPromptly'
    BY <1>1, <1>2, <2>2 DEF Promptness, TakenPromptly, WholeUnlessSlow
  <2>. QED
    BY <1>4, <2>1, <2>3
<1>. QED
  BY <1>6, <1>7, <1>8, <1>9, <1>10, <1>11, <1>12 DEF Next, Proxy

LEMMA PromptInit == Init => Promptness
BY DEF Init, Promptness, AllPrompt, Prompt, Entry, SentPromptly, TakenPromptly

Passing == Types /\ Serving /\ Own /\ (~stray => Streams) /\ (~stray => Promptness)

LEMMA PassingHolds ==
  /\ Init => Passing
  /\ Passing /\ [Next]_vars => Passing'
<1>1. Init => Types /\ Own /\ Streams /\ Promptness
  BY InitTypes, OwnInit, StreamsInit, PromptInit
<1>2. Init => Serving
  BY DEF Init, Serving, Entry
<1>3. Passing /\ [Next]_vars
       => Types' /\ Serving' /\ Own' /\ (~stray => Streams)' /\ (~stray => Promptness)'
  BY TypesNext, ServingNext, OwnNext, StreamsNext, PromptNext DEF Passing
<1>. QED
  BY <1>1, <1>2, <1>3 DEF Passing

LEMMA AfterIsPieces == \A from, c : SentAfter(from, c) = Pieces(from, sent[c])
BY DEF SentAfter, Pieces

(* As long as no handler has gone on with an entry that is not its own,     *)
(* every byte that passes through a forwarding connection is in one place   *)
(* and in order, for any amount of data and any number of connections; what *)
(* passes begins with the end of the request only if the client sent a name *)
(* in pieces.                                                               *)
THEOREM NothingLost == Spec => []NothingIsLost
<1>1. Passing => NothingIsLost
  <2>. SUFFICES ASSUME Types, OwnAll, Streams, Promptness, NEW k \in Live, table[k].status = "FORWARDING"
                PROVE  LET e == table[k]
                           s == servers[e.server]
                       IN  /\ WholeUnlessSlow(s)
                           /\ s.peer # "refused" =>
                                s.got \o s.wq \o Held(e.bufC) \o inq[e.client] = SentAfter(s.from, e.client)
                           /\ end[e.client] # "reset" =>
                                got[e.client] \o wq[e.client] \o Datas(Held(e.bufS) \o s.inq) = SentFrom(s)
    BY DEF NothingIsLost, Passing, Own
  <2>1. Flow(table[k], inq, sent, got, wq, end, servers)
    BY DEF Streams, Flows
  <2>2. WholeUnlessSlow(servers[table[k].server])
    BY DEF OwnAll, OwnServers, Opened, Promptness, TakenPromptly
  <2>. QED
    BY <2>1, <2>2, AfterIsPieces, Zenon DEF Flow, Fits, Passes
<1>. QED
  BY <1>1, PassingHolds, PTL DEF Spec

(* Under the same condition a server is left alone only when a side has     *)
(* finished and nothing of it is still to be passed on.                     *)
THEOREM ClosedWhenDone == Spec => []ClosedWhenOneSideIsDone
<1>1. Passing => ClosedWhenOneSideIsDone
  <2>. SUFFICES ASSUME Types, Streams, Promptness, NEW n \in DOMAIN servers,
                       NEW s, s = servers[n], NEW c, c = s.client,
                       ~s.open /\ s.peer # "refused" /\ end[c] # "reset"
                PROVE  /\ WholeUnlessSlow(s)
                       /\ s.got \o s.wq \o inq[c] = SentAfter(s.from, c)
                       /\ got[c] \o wq[c] \o Datas(s.inq) = SentFrom(s)
                       /\ \/ end[c] = "fin" /\ inq[c] = <<>>
                          \/ s.peer = "fin" /\ s.inq = <<>>
    BY DEF ClosedWhenOneSideIsDone, Passing
  <2>1. Gone(s, inq, sent, got, wq, end, sock)
    BY DEF Streams, Left
  <2>2. Done(inq[c], sent[c], got[c] \o wq[c], end[c], s)
    BY <2>1, Zenon DEF Gone
  <2>3. WholeUnlessSlow(s)
    BY DEF Promptness, TakenPromptly
  <2>. QED
    BY <2>2, <2>3, AfterIsPieces, Zenon DEF Done
<1>. QED
  BY <1>1, PassingHolds, PTL DEF Spec
===============================================================================
