------------------------------ MODULE TreeChat ------------------------------
(***************************************************************************)
(* The UDP tree chat (third lab) as a whole: programs that register with a *)
(* parent, relay every line they accept to all other neighbours, confirm,  *)
(* resend and give up.  Link is one direction of one link of this module   *)
(* seen closely; here the interest is in what crosses several programs:    *)
(* registration, relaying, echo, duplicates and custody of a line.         *)
(*                                                                         *)
(* A program is started once, so that it has one NodeInfo per neighbour    *)
(* and the neighbour stands for it.  Names begin with none of the letters  *)
(* M, C, R and lines are short enough to be parsed.  The steps of a        *)
(* handler are one action: the only thing that could come between them is  *)
(* a datagram, which the network delays anyway, or a line typed between    *)
(* the print and the relay of an accepted one, which no property looks at. *)
(***************************************************************************)
EXTENDS Naturals, Sequences, SequencesExt, FiniteSets, Bags

CONSTANTS Nodes,      \* the programs
          NoNode,     \* no program: the parent of a root, the source of a typed line
          Parent,     \* whom a program is told to register with
          MaxLines,   \* bound: lines typed at each program
          MaxFailed,  \* Checker.maxFailed
          MaxFaults   \* bound: datagrams lost, send() that throw, connect() that
                      \* fail, programs that quit, and checks that come before an
                      \* answer under way

ASSUME TreeAssumption ==
  /\ NoNode \notin Nodes
  /\ Parent \in [Nodes -> Nodes \cup {NoNode}]
  /\ MaxLines \in [Nodes -> Nat]
  /\ MaxFailed \in Nat
  /\ MaxFaults \in Nat

(* A program registers with one that runs already: no cycles.               *)
ASSUME ForestAssumption ==
  \E rank \in [Nodes -> 1..Cardinality(Nodes)] :
    \A n \in Nodes : Parent[n] # NoNode => rank[Parent[n]] < rank[n]

VARIABLES phase,         \* where main() of each program is
          nodes,         \* Server.nodes: the neighbours, in the order added
          sent, recieved, lastDelivered,    \* the fields of NodeInfo
          messageQueue,  \* lines to send, with the neighbour each came from
          sending,       \* Sender's loop: message and rest of the snapshot
          checkQueue,    \* CheckTasks
          network,       \* datagrams in flight, a bag
          typed,         \* history: number of lines typed
          printed,       \* history: lines printed, in order
          taken,         \* history: messages Sender took
          since,         \* history: Len(taken) when a neighbour was added
          removed,       \* history: some Checker removed a neighbour
          threw,         \* history: some send() of a message threw
          unconfirmed,   \* history: some send() of a confirm threw
          faults         \* number of faults so far

links == <<sent, recieved, lastDelivered>>
history == <<typed, printed, taken, since, removed, threw, unconfirmed, faults>>
vars == <<phase, nodes, links, messageQueue, sending, checkQueue, network, history>>

Lines == UNION {[by : {n}, k : 1..MaxLines[n]] : n \in Nodes}

(* Sender's loop over the rest of the snapshot, and its end.                *)
Idle == [line |-> NoNode, rest |-> <<>>]
Loop(line, rest) == IF rest = <<>> THEN Idle ELSE [line |-> line, rest |-> rest]

NothingSaid ==
  /\ sent = [n \in Nodes |-> [p \in Nodes |-> 0]]
  /\ recieved = [n \in Nodes |-> [p \in Nodes |-> 1]]
  /\ lastDelivered = [n \in Nodes |-> [p \in Nodes |-> 0]]
  /\ messageQueue = [n \in Nodes |-> <<>>]
  /\ sending = [n \in Nodes |-> Idle]
  /\ checkQueue = [n \in Nodes |-> <<>>]
  /\ network = EmptyBag
  /\ typed = [n \in Nodes |-> 0]
  /\ printed = [n \in Nodes |-> <<>>]
  /\ taken = [n \in Nodes |-> <<>>]
  /\ since = [n \in Nodes |-> [p \in Nodes |-> 0]]
  /\ removed = FALSE /\ threw = FALSE /\ unconfirmed = FALSE
  /\ faults = 0

Init ==
  /\ phase = [n \in Nodes |-> "off"]
  /\ nodes = [n \in Nodes |-> <<>>]
  /\ NothingSaid

Datagram(type, n, p) == [type |-> type, from |-> n, to |-> p, uid |-> 0, line |-> NoNode]
MessageTo(p, n, uid, line) == [type |-> "M", from |-> n, to |-> p, uid |-> uid, line |-> line]

Flying(d, type, n) == d.type = type /\ d.to = n /\ BagIn(d, network)
Delivered(d) == network (-) SetToBag({d})
Fault == faults < MaxFaults /\ faults' = faults + 1

AddNode(n, p) ==
  /\ nodes' = [nodes EXCEPT ![n] = Append(@, p)]
  /\ since' = [since EXCEPT ![n][p] = Len(taken[n])]

(* The neighbours but p. A list holds a neighbour once at most, because a   *)
(* registration is sent once: to skip p and to remove p once are the same.  *)
Others(n, p) == RemoveFirst(nodes[n], p)

-----------------------------------------------------------------------------
(* Faults a change of the code could introduce; each must make one of the   *)
(* properties below fail.  They are used by no specification.               *)

(* A line is sent back to the neighbour it came from.                       *)
FaultEcho(n) ==
  /\ phase[n] = "working"
  /\ sending[n] = Idle
  /\ messageQueue[n] # <<>>
  /\ sending' = [sending EXCEPT ![n] = Loop(Head(messageQueue[n]).line, nodes[n])]
  /\ messageQueue' = [messageQueue EXCEPT ![n] = Tail(@)]
  /\ taken' = [taken EXCEPT ![n] = Append(@, Head(messageQueue[n]))]
  /\ UNCHANGED <<phase, nodes, links, checkQueue, network, typed, printed, since,
                 removed, threw, unconfirmed, faults>>

(* The number of a message is not compared with the expected one.           *)
FaultAcceptAny(n, d) ==
  /\ phase[n] = "working"
  /\ Flying(d, "M", n)
  /\ Contains(nodes[n], d.from)
  /\ printed' = [printed EXCEPT ![n] = Append(@, d.line)]
  /\ messageQueue' = [messageQueue EXCEPT ![n] = Append(@, [line |-> d.line, from |-> d.from])]
  /\ network' = Delivered(d) (+) SetToBag({Datagram("C", n, d.from)})
  /\ recieved' = [recieved EXCEPT ![n][d.from] = @ + 1]
  /\ UNCHANGED <<phase, nodes, sent, lastDelivered, sending, checkQueue, typed, taken,
                 since, removed, threw, unconfirmed, faults>>

(* An accepted line is printed and confirmed, not relayed.                  *)
FaultNoRelay(n, d) ==
  /\ phase[n] = "working"
  /\ Flying(d, "M", n)
  /\ Contains(nodes[n], d.from)
  /\ d.uid = recieved[n][d.from]
  /\ printed' = [printed EXCEPT ![n] = Append(@, d.line)]
  /\ network' = Delivered(d) (+) SetToBag({Datagram("C", n, d.from)})
  /\ recieved' = [recieved EXCEPT ![n][d.from] = @ + 1]
  /\ UNCHANGED <<phase, nodes, sent, lastDelivered, messageQueue, sending, checkQueue,
                 typed, taken, since, removed, threw, unconfirmed, faults>>

(* A task is dropped one confirm too early.                                 *)
FaultDoneTooEarly(n) ==
  /\ phase[n] = "working"
  /\ checkQueue[n] # <<>>
  /\ Head(checkQueue[n]).uid <= lastDelivered[n][Head(checkQueue[n]).to] + 1
  /\ checkQueue' = [checkQueue EXCEPT ![n] = Tail(@)]
  /\ UNCHANGED <<phase, nodes, links, messageQueue, sending, network, history>>

-----------------------------------------------------------------------------
(* Server: main, connect, work.                                             *)

StartRoot(n) ==
  /\ phase[n] = "off"
  /\ Parent[n] = NoNode
  /\ phase' = [phase EXCEPT ![n] = "working"]
  /\ UNCHANGED <<nodes, links, messageQueue, sending, checkQueue, network, history>>

Register(n) ==
  /\ phase[n] = "off"
  /\ Parent[n] # NoNode
  /\ phase' = [phase EXCEPT ![n] = "connecting"]
  /\ network' = network (+) SetToBag({Datagram("R", n, Parent[n])})
  /\ UNCHANGED <<nodes, links, messageQueue, sending, checkQueue, history>>

(* connect() takes whatever datagram comes first for the name of the parent.*)
ConnectAnswered(n) ==
  /\ phase[n] = "connecting"
  /\ \E d \in BagToSet(network) : d.to = n /\ network' = Delivered(d)
  /\ phase' = [phase EXCEPT ![n] = "working"]
  /\ AddNode(n, Parent[n])
  /\ UNCHANGED <<links, messageQueue, sending, checkQueue, typed, printed, taken,
                 removed, threw, unconfirmed, faults>>

ConnectTimesOut(n) ==
  /\ phase[n] = "connecting"
  /\ phase' = [phase EXCEPT ![n] = "closed"]
  /\ UNCHANGED <<nodes, links, messageQueue, sending, checkQueue, network, history>>

(* The host is unknown or send() throws, and nothing is sent; or receive()  *)
(* throws, and the registration is under way: the program works all the     *)
(* same, with nobody to send its lines to.                                  *)
ConnectFails(n) ==
  /\ phase[n] \in {"off", "connecting"}
  /\ Parent[n] # NoNode
  /\ Fault
  /\ phase' = [phase EXCEPT ![n] = "working"]
  /\ UNCHANGED <<nodes, links, messageQueue, sending, checkQueue, network, typed,
                 printed, taken, since, removed, threw, unconfirmed>>

TypeLine(n) ==
  LET line == [by |-> n, k |-> typed[n] + 1] IN
  /\ phase[n] = "working"
  /\ typed[n] < MaxLines[n]
  /\ typed' = [typed EXCEPT ![n] = @ + 1]
  /\ messageQueue' = [messageQueue EXCEPT ![n] = Append(@, [line |-> line, from |-> NoNode])]
  /\ UNCHANGED <<phase, nodes, links, sending, checkQueue, network, printed, taken,
                 since, removed, threw, unconfirmed, faults>>

(* The end of the input, or a crash: the neighbours are not told.           *)
Quit(n) ==
  /\ phase[n] = "working"
  /\ Fault
  /\ phase' = [phase EXCEPT ![n] = "closed"]
  /\ UNCHANGED <<nodes, links, messageQueue, sending, checkQueue, network, typed,
                 printed, taken, since, removed, threw, unconfirmed>>

-----------------------------------------------------------------------------
(* Sender.run                                                               *)

TakeMessage(n) ==
  LET m == Head(messageQueue[n]) IN
  /\ phase[n] = "working"
  /\ sending[n] = Idle
  /\ messageQueue[n] # <<>>
  /\ sending' = [sending EXCEPT ![n] = Loop(m.line, Others(n, m.from))]
  /\ messageQueue' = [messageQueue EXCEPT ![n] = Tail(@)]
  /\ taken' = [taken EXCEPT ![n] = Append(@, m)]
  /\ UNCHANGED <<phase, nodes, links, checkQueue, network, typed, printed, since,
                 removed, threw, unconfirmed, faults>>

Serving(n, p) ==
  /\ phase[n] = "working"
  /\ sending[n] # Idle
  /\ p = Head(sending[n].rest)

SendMessage(n, p) ==
  LET uid == sent[n][p] + 1
      line == sending[n].line
  IN
  /\ Serving(n, p)
  /\ sent' = [sent EXCEPT ![n][p] = uid]
  /\ network' = network (+) SetToBag({MessageTo(p, n, uid, line)})
  /\ checkQueue' = [checkQueue EXCEPT ![n] =
       Append(@, [to |-> p, uid |-> uid, line |-> line, numFailed |-> 1])]
  /\ sending' = [sending EXCEPT ![n] = Loop(line, Tail(@.rest))]
  /\ UNCHANGED <<phase, nodes, recieved, lastDelivered, messageQueue, history>>

(* send() throws: the uid is used up, the rest of the neighbours left out.  *)
SendFails(n, p) ==
  /\ Serving(n, p)
  /\ Fault
  /\ threw' = TRUE
  /\ sent' = [sent EXCEPT ![n][p] = @ + 1]
  /\ sending' = [sending EXCEPT ![n] = Idle]
  /\ UNCHANGED <<phase, nodes, recieved, lastDelivered, messageQueue, checkQueue,
                 network, typed, printed, taken, since, removed, unconfirmed>>

-----------------------------------------------------------------------------
(* Reciever.run                                                             *)

AcceptMessage(n, d) ==
  /\ phase[n] = "working"
  /\ Flying(d, "M", n)
  /\ Contains(nodes[n], d.from)
  /\ d.uid = recieved[n][d.from]
  /\ printed' = [printed EXCEPT ![n] = Append(@, d.line)]
  /\ messageQueue' = [messageQueue EXCEPT ![n] = Append(@, [line |-> d.line, from |-> d.from])]
  /\ \/ /\ network' = Delivered(d) (+) SetToBag({Datagram("C", n, d.from)})
        /\ recieved' = [recieved EXCEPT ![n][d.from] = @ + 1]
        /\ UNCHANGED <<unconfirmed, faults>>
     \/ /\ Fault                                \* send() of the confirm throws
        /\ unconfirmed' = TRUE
        /\ network' = Delivered(d)
        /\ UNCHANGED recieved
  /\ UNCHANGED <<phase, nodes, sent, lastDelivered, sending, checkQueue, typed, taken,
                 since, removed, threw>>

IgnoreMessage(n, d) ==
  /\ phase[n] = "working"
  /\ Flying(d, "M", n)
  /\ ~Contains(nodes[n], d.from) \/ d.uid # recieved[n][d.from]
  /\ network' = Delivered(d)
  /\ UNCHANGED <<phase, nodes, links, messageQueue, sending, checkQueue, history>>

CountConfirm(n, d) ==
  /\ phase[n] = "working"
  /\ Flying(d, "C", n)
  /\ network' = Delivered(d)
  /\ IF Contains(nodes[n], d.from)
     THEN lastDelivered' = [lastDelivered EXCEPT ![n][d.from] = @ + 1]
     ELSE UNCHANGED lastDelivered
  /\ UNCHANGED <<phase, nodes, sent, recieved, messageQueue, sending, checkQueue, history>>

AcceptRegistration(n, d) ==
  /\ phase[n] = "working"
  /\ Flying(d, "R", n)
  /\ AddNode(n, d.from)
  /\ network' = Delivered(d) (+) SetToBag({Datagram("N", n, d.from)})
  /\ UNCHANGED <<phase, links, messageQueue, sending, checkQueue, typed, printed,
                 taken, removed, threw, unconfirmed, faults>>

(* The name of the parent, after connect() took another datagram for it.    *)
IgnoreName(n, d) ==
  /\ phase[n] = "working"
  /\ Flying(d, "N", n)
  /\ network' = Delivered(d)
  /\ UNCHANGED <<phase, nodes, links, messageQueue, sending, checkQueue, history>>

-----------------------------------------------------------------------------
(* Checker.run                                                              *)

(* What is in flight would answer the task if confirmTimeout were longer.   *)
UnderWay(n, task) ==
  /\ phase[task.to] # "closed"
  /\ \E d \in BagToSet(network) :
       \/ d.type = "M" /\ d.from = n /\ d.to = task.to /\ d.uid = task.uid
       \/ d.type = "C" /\ d.from = task.to /\ d.to = n

TimedOut(n, task) == IF UnderWay(n, task) THEN Fault ELSE UNCHANGED faults

CheckRemoves(n) ==
  /\ phase[n] = "working"
  /\ checkQueue[n] # <<>>
  /\ LET task == Head(checkQueue[n]) IN
     /\ task.numFailed > MaxFailed
     /\ TimedOut(n, task)
     /\ nodes' = [nodes EXCEPT ![n] = Others(n, task.to)]
  /\ checkQueue' = [checkQueue EXCEPT ![n] = Tail(@)]
  /\ removed' = TRUE
  /\ UNCHANGED <<phase, links, messageQueue, sending, network, typed, printed, taken,
                 since, threw, unconfirmed>>

CheckResends(n) ==
  /\ phase[n] = "working"
  /\ checkQueue[n] # <<>>
  /\ LET task == Head(checkQueue[n]) IN
     /\ task.numFailed <= MaxFailed
     /\ task.uid > lastDelivered[n][task.to]
     /\ TimedOut(n, task)
     /\ network' = network (+) SetToBag({MessageTo(task.to, n, task.uid, task.line)})
     /\ checkQueue' = [checkQueue EXCEPT ![n] =
          Append(Tail(@), [task EXCEPT !.numFailed = @ + 1])]
  /\ UNCHANGED <<phase, nodes, links, messageQueue, sending, typed, printed, taken,
                 since, removed, threw, unconfirmed>>

CheckDone(n) ==
  /\ phase[n] = "working"
  /\ checkQueue[n] # <<>>
  /\ LET task == Head(checkQueue[n]) IN
     /\ task.numFailed <= MaxFailed
     /\ task.uid <= lastDelivered[n][task.to]
  /\ checkQueue' = [checkQueue EXCEPT ![n] = Tail(@)]
  /\ UNCHANGED <<phase, nodes, links, messageQueue, sending, network, history>>

-----------------------------------------------------------------------------
(* The network, failPercent, or a send() of the Checker that throws.        *)
Lose(d) ==
  /\ Fault
  /\ network' = Delivered(d)
  /\ UNCHANGED <<phase, nodes, links, messageQueue, sending, checkQueue, typed,
                 printed, taken, since, removed, threw, unconfirmed>>

ServerStep(n) ==
  \/ StartRoot(n) \/ Register(n) \/ ConnectAnswered(n) \/ ConnectTimesOut(n)
  \/ ConnectFails(n) \/ TypeLine(n) \/ Quit(n)

SenderStep(n) ==
  TakeMessage(n) \/ \E p \in Nodes : SendMessage(n, p) \/ SendFails(n, p)

RecieverStep(n) ==
  \E d \in BagToSet(network) :
    \/ AcceptMessage(n, d) \/ IgnoreMessage(n, d) \/ CountConfirm(n, d)
    \/ AcceptRegistration(n, d) \/ IgnoreName(n, d)

CheckerStep(n) == CheckRemoves(n) \/ CheckResends(n) \/ CheckDone(n)

Next ==
  \/ \E n \in Nodes : ServerStep(n) \/ SenderStep(n) \/ RecieverStep(n) \/ CheckerStep(n)
  \/ \E d \in BagToSet(network) : Lose(d)

Spec == Init /\ [][Next]_vars

-----------------------------------------------------------------------------
Tasks == [to : Nodes, uid : Nat, line : Lines, numFailed : 1..(MaxFailed + 1)]
Messages == [line : Lines, from : Nodes \cup {NoNode}]
Loops == {Idle} \cup [line : Lines, rest : Seq(Nodes) \ {<<>>}]
Datagrams == [type : {"M"}, from : Nodes, to : Nodes, uid : Nat, line : Lines]
             \cup [type : {"C", "R", "N"}, from : Nodes, to : Nodes, uid : {0}, line : {NoNode}]

(* Every variable has its type.                                             *)
TypeOK ==
  /\ phase \in [Nodes -> {"off", "connecting", "working", "closed"}]
  /\ nodes \in [Nodes -> Seq(Nodes)]
  /\ sent \in [Nodes -> [Nodes -> Nat]]
  /\ recieved \in [Nodes -> [Nodes -> Nat \ {0}]]
  /\ lastDelivered \in [Nodes -> [Nodes -> Nat]]
  /\ messageQueue \in [Nodes -> Seq(Messages)]
  /\ sending \in [Nodes -> Loops]
  /\ checkQueue \in [Nodes -> Seq(Tasks)]
  /\ IsABag(network) /\ BagToSet(network) \subseteq Datagrams
  /\ typed \in [Nodes -> Nat] /\ \A n \in Nodes : typed[n] <= MaxLines[n]
  /\ printed \in [Nodes -> Seq(Lines)]
  /\ taken \in [Nodes -> Seq(Messages)]
  /\ since \in [Nodes -> [Nodes -> Nat]]
  /\ removed \in BOOLEAN /\ threw \in BOOLEAN /\ unconfirmed \in BOOLEAN
  /\ faults \in 0..MaxFaults

(* A program prints a line at most once, and never one that was typed at    *)
(* it, however often datagrams are resent and wherever programs join; only  *)
(* a confirm that could not be sent breaks it (Reciever.java:52-57).        *)
PrintedOnce ==
  ~unconfirmed =>
    \A n \in Nodes : \A i, j \in DOMAIN printed[n] :
      /\ printed[n][i].by # n
      /\ printed[n][i] = printed[n][j] => i = j

(* The lines of one author are printed in the order they were typed, at     *)
(* every program and over any number of relays, whatever is lost or throws. *)
AuthorsOrder ==
  \A n \in Nodes : \A i, j \in DOMAIN printed[n] :
    i < j /\ printed[n][i].by = printed[n][j].by => printed[n][i].k <= printed[n][j].k

(* Custody: a program that took a line from its queue answers for it to     *)
(* every neighbour it has had since: the neighbour has printed it, or it is *)
(* next in the Sender's loop, or there is a CheckTask for it.               *)
Custody ==
  ~threw =>
    \A n \in Nodes, p \in Nodes :
      Contains(nodes[n], p) =>
        \A j \in (since[n][p] + 1)..Len(taken[n]) :
          taken[n][j].from # p =>
            LET line == taken[n][j].line IN
            \/ Contains(printed[p], line)
            \/ \E i \in DOMAIN checkQueue[n] :
                 checkQueue[n][i].to = p /\ checkQueue[n][i].line = line
            \/ j = Len(taken[n]) /\ Contains(sending[n].rest, p)

Settled ==
  /\ \A n \in Nodes : /\ phase[n] = "working"
                      /\ messageQueue[n] = <<>>
                      /\ sending[n] = Idle
                      /\ checkQueue[n] = <<>>
  /\ ~removed

JoinedBeforeTheFirstLine ==
  \A n, p \in Nodes : since[n][p] = 0

(* No connect() failed (Server.java:33-35, 69-72): a program that works     *)
(* without its parent goes on as if nothing were the matter.                *)
HaveTheirParents ==
  \A n \in Nodes : Parent[n] # NoNode => Contains(nodes[n], Parent[n])

(* When all is said - no queue, no task - every line typed anywhere has     *)
(* been printed everywhere else, if every program has its parent in its     *)
(* list: the programs relay over the whole tree.                            *)
SettledMeansDelivered ==
  Settled /\ HaveTheirParents /\ JoinedBeforeTheFirstLine /\ ~threw =>
    \A l \in Lines : l.k <= typed[l.by] =>
      \A n \in Nodes \ {l.by} : Contains(printed[n], l)
=============================================================================
