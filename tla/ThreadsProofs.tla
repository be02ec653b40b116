----------------------------- MODULE ThreadsProofs -----------------------------
(***************************************************************************)
(* Proofs about the threads of one program of the third lab and the queue  *)
(* they hand their work over with.                                         *)
(*                                                                         *)
(* Storage: for any number of producers and any finite set of consumers.   *)
(* TypeOK, Fifo and NoLostWakeup together are inductive; the counting in   *)
(* NoLostWakeup needs the two facts about Signalled below.                 *)
(*                                                                         *)
(* NodeLifecycle: for any number of lines, accepted messages and           *)
(* neighbours.  What main waits for in cleanup() is a chain: it joins the  *)
(* Sender and the Reciever, and the Sender ends only after it joined the   *)
(* Checker.  Order writes that chain down; with ThreadsTypeOK it is        *)
(* inductive and gives both safety properties.                             *)
(***************************************************************************)
EXTENDS Storage, NodeLifecycle, FiniteSetTheorems, SequenceTheorems, TLAPS

-----------------------------------------------------------------------------
(* The queue                                                                *)

(* Signalled is a subset of the finite set of consumers, so its cardinality *)
(* is a natural number.                                                     *)
LEMMA SignalledFinite == IsFiniteSet(Signalled) /\ Cardinality(Signalled) \in Nat
<1>1. Signalled \subseteq Consumers
  BY DEF Signalled
<1>. QED
  BY <1>1, StorageAssumption, FS_Subset, FS_CardinalityType DEF StorageAssumption

(* A consumer that joins the lock's queue is one more signalled consumer;   *)
(* one that leaves it is one less; any other change of pc leaves them alone.*)
LEMMA SignalledCount ==
  ASSUME TypeOK, NEW c \in Consumers, NEW v \in PCs,
         pc' = [pc EXCEPT ![c] = v]
  PROVE  /\ v = "signalled" /\ pc[c] # "signalled"
              => Cardinality(Signalled') = Cardinality(Signalled) + 1
         /\ v # "signalled" /\ pc[c] = "signalled"
              => Cardinality(Signalled') = Cardinality(Signalled) - 1
         /\ v # "signalled" /\ pc[c] # "signalled"
              => Cardinality(Signalled') = Cardinality(Signalled)
<1>. USE DEF TypeOK
<1>1. CASE v = "signalled" /\ pc[c] # "signalled"
  <2>1. Signalled' = Signalled \cup {c} /\ c \notin Signalled
    BY <1>1 DEF Signalled
  <2>. QED
    BY <1>1, <2>1, SignalledFinite, FS_AddElement
<1>2. CASE v # "signalled" /\ pc[c] = "signalled"
  <2>1. Signalled' = Signalled \ {c} /\ c \in Signalled
    BY <1>2 DEF Signalled
  <2>. QED
    BY <1>2, <2>1, SignalledFinite, FS_RemoveElement
<1>3. CASE v # "signalled" /\ pc[c] # "signalled"
  <2>1. Signalled' = Signalled
    BY <1>3 DEF Signalled
  <2>. QED
    BY <1>3, <2>1
<1>4. CASE v = "signalled" /\ pc[c] = "signalled"
  BY <1>4
<1>. QED
  BY <1>1, <1>2, <1>3, <1>4

-----------------------------------------------------------------------------
(* Every variable keeps its type.                                           *)
LEMMA TypeInit == Init => TypeOK
<1>. SUFFICES ASSUME Init PROVE TypeOK
  OBVIOUS
<1>1. pc \in [Consumers -> PCs]
  BY DEF Init, PCs
<1>2. puts \in [Producers -> 0..MaxPuts]
  BY StorageAssumption DEF Init, StorageAssumption
<1>3. <<>> \in Seq(Objects)
  BY EmptySeq
<1>. QED
  BY <1>1, <1>2, <1>3 DEF Init, TypeOK

LEMMA TypeStep == TypeOK /\ [Next]_vars => TypeOK'
<1>. SUFFICES ASSUME TypeOK, [Next]_vars PROVE TypeOK'
  OBVIOUS
<1>. USE StorageAssumption DEF TypeOK, StorageAssumption
<1>1. ASSUME NEW p \in Producers, Put(p) PROVE TypeOK'
  <2>1. [by |-> p, n |-> puts[p] + 1] \in Objects
    BY <1>1 DEF Put, Objects
  <2>2. pc' \in [Consumers -> PCs]
    BY <1>1 DEF Put, Signal, PCs, Waiting
  <2>. QED
    BY <1>1, <2>1, <2>2 DEF Put
<1>2. ASSUME NEW c \in Consumers, GetAwaits(c) PROVE TypeOK'
  BY <1>2 DEF GetAwaits, PCs
<1>3. ASSUME NEW c \in Consumers, GetReturnsNull(c) PROVE TypeOK'
  BY <1>3 DEF GetReturnsNull, PCs
<1>4. ASSUME NEW c \in Consumers, GetReturnsObject(c) PROVE TypeOK'
  <2>1. Head(container) \in Objects /\ Tail(container) \in Seq(Objects)
    BY <1>4 DEF GetReturnsObject
  <2>. QED
    BY <1>4, <2>1 DEF GetReturnsObject, PCs
<1>5. ASSUME NEW c \in Consumers, SpuriousWakeup(c) PROVE TypeOK'
  BY <1>5 DEF SpuriousWakeup, PCs
<1>6. CASE Wakeup
  BY <1>6 DEF Wakeup, SignalAll, PCs
<1>7. CASE UNCHANGED vars
  BY <1>7 DEF vars
<1>. QED
  BY <1>1, <1>2, <1>3, <1>4, <1>5, <1>6, <1>7 DEF Next, Get

(* Storage keeps its variables in their types in every reachable state.     *)
THEOREM TypeCorrect == Spec => []TypeOK
  BY TypeInit, TypeStep, PTL DEF Spec

-----------------------------------------------------------------------------
(* What has been returned, followed by what is stored, is what was put, in  *)
(* that order: put() appends to the list and get() removes its first        *)
(* element (Storage.java:21 and :34).                                       *)
LEMMA FifoStep == TypeOK /\ Fifo /\ [Next]_vars => Fifo'
<1>. SUFFICES ASSUME TypeOK, Fifo, [Next]_vars PROVE Fifo'
  OBVIOUS
<1>. USE DEF TypeOK, Fifo
<1>1. ASSUME NEW p \in Producers, Put(p) PROVE Fifo'
  <2>0. /\ [by |-> p, n |-> puts[p] + 1] \in Objects
        /\ putLog' = Append(putLog, [by |-> p, n |-> puts[p] + 1])
        /\ container' = Append(container, [by |-> p, n |-> puts[p] + 1])
        /\ returned' = returned
    BY <1>1, StorageAssumption DEF Put, Objects, StorageAssumption
  <2>1. PICK object \in Objects :
          /\ putLog' = Append(putLog, object)
          /\ container' = Append(container, object)
    BY <2>0
  <2>2. Append(returned \o container, object) = (returned \o container) \o <<object>>
    BY ConcatProperties, AppendIsConcat
  <2>3. Append(container, object) = container \o <<object>>
    BY AppendIsConcat
  <2>4. (returned \o container) \o <<object>> = returned \o (container \o <<object>>)
    BY ConcatAssociative
  <2>. QED
    BY <2>0, <2>1, <2>2, <2>3, <2>4
<1>2. ASSUME NEW c \in Consumers, GetReturnsObject(c) PROVE Fifo'
  <2>1. Append(returned, Head(container)) \o Tail(container) = returned \o container
    BY <1>2 DEF GetReturnsObject
  <2>. QED
    BY <1>2, <2>1 DEF GetReturnsObject
<1>3. ASSUME UNCHANGED <<container, returned, putLog>> PROVE Fifo'
  BY <1>3
<1>. QED
  BY <1>1, <1>2, <1>3
  DEF Next, Get, GetAwaits, GetReturnsNull, SpuriousWakeup, Wakeup, vars

THEOREM FifoOrder == Spec => []Fifo
<1>1. Init => Fifo
  BY DEF Init, Fifo
<1>. QED
  BY <1>1, FifoStep, TypeCorrect, PTL DEF Spec

-----------------------------------------------------------------------------
(* put() uses signal() and not signalAll().  The invariant says this is     *)
(* enough: the number of stored objects never exceeds the number of         *)
(* consumers already on their way while any other consumer sleeps.          *)
LEMMA NoLostWakeupStep == TypeOK /\ NoLostWakeup /\ [Next]_vars => NoLostWakeup'
<1>. SUFFICES ASSUME TypeOK, NoLostWakeup, [Next]_vars, Waiting' # {}
              PROVE  ~wakeupState' /\ Len(container') <= Cardinality(Signalled')
  BY DEF NoLostWakeup
<1>. USE DEF TypeOK
<1>0. Len(container) \in Nat /\ Cardinality(Signalled) \in Nat
  BY SignalledFinite
<1>1. ASSUME NEW p \in Producers, Put(p)
      PROVE  ~wakeupState' /\ Len(container') <= Cardinality(Signalled')
  <2>1. Waiting # {}
    BY <1>1 DEF Put, Signal, Waiting
  <2>2. PICK c \in Waiting : pc' = [pc EXCEPT ![c] = "signalled"]
    BY <1>1, <2>1 DEF Put, Signal
  <2>3. Cardinality(Signalled') = Cardinality(Signalled) + 1
    BY <2>2, SignalledCount DEF Waiting, PCs
  <2>4. Len(container') = Len(container) + 1 /\ ~wakeupState'
    BY <1>1, <2>1 DEF Put, NoLostWakeup
  <2>. QED
    BY <1>0, <2>1, <2>3, <2>4 DEF NoLostWakeup
<1>2. ASSUME NEW c \in Consumers, GetAwaits(c)
      PROVE  ~wakeupState' /\ Len(container') <= Cardinality(Signalled')
  <2>1. Cardinality(Signalled') \in Nat
    <3>1. Signalled' \subseteq Consumers
      BY DEF Signalled
    <3>. QED
      BY <3>1, StorageAssumption, FS_Subset, FS_CardinalityType DEF StorageAssumption
  <2>2. Len(container') = 0 /\ ~wakeupState'
    BY <1>2 DEF GetAwaits
  <2>. QED
    BY <2>1, <2>2
<1>3. ASSUME NEW c \in Consumers, GetReturnsNull(c) PROVE FALSE
  <2>1. Waiting = {}
    BY <1>3 DEF GetReturnsNull, NoLostWakeup
  <2>. QED
    BY <1>3, <2>1 DEF GetReturnsNull, Waiting
<1>4. ASSUME NEW c \in Consumers, GetReturnsObject(c)
      PROVE  ~wakeupState' /\ Len(container') <= Cardinality(Signalled')
  <2>1. Waiting # {}
    BY <1>4 DEF GetReturnsObject, Waiting
  <2>2. Len(container') = Len(container) - 1 /\ ~wakeupState'
    BY <1>4 DEF GetReturnsObject
  <2>3. \/ Cardinality(Signalled') = Cardinality(Signalled) - 1
        \/ Cardinality(Signalled') = Cardinality(Signalled)
    BY <1>4, SignalledCount DEF GetReturnsObject, PCs, AtLoopTest
  <2>. QED
    BY <1>0, <2>1, <2>2, <2>3 DEF NoLostWakeup
<1>5. ASSUME NEW c \in Consumers, SpuriousWakeup(c)
      PROVE  ~wakeupState' /\ Len(container') <= Cardinality(Signalled')
  <2>1. Waiting # {}
    BY <1>5 DEF SpuriousWakeup, Waiting
  <2>2. Cardinality(Signalled') = Cardinality(Signalled) + 1
    BY <1>5, SignalledCount DEF SpuriousWakeup, PCs
  <2>. QED
    BY <1>0, <1>5, <2>1, <2>2 DEF SpuriousWakeup, NoLostWakeup
<1>6. CASE Wakeup
  BY <1>6 DEF Wakeup, SignalAll, Waiting
<1>7. CASE UNCHANGED vars
  BY <1>7 DEF vars, NoLostWakeup, Waiting, Signalled
<1>. QED
  BY <1>1, <1>2, <1>3, <1>4, <1>5, <1>6, <1>7 DEF Next, Get

THEOREM NoWakeupIsLost == Spec => []NoLostWakeup
<1>1. Init => NoLostWakeup
  BY DEF Init, NoLostWakeup, Waiting
<1>. QED
  BY <1>1, NoLostWakeupStep, TypeCorrect, PTL DEF Spec

-----------------------------------------------------------------------------
(* After wakeup() get() returns null and no object (Storage.java:31-33), so *)
(* what is stored then is dropped.                                          *)
THEOREM WakeupIsFinal == Spec => NothingAfterWakeup
<1>1. [Next]_vars => [wakeupState => returned' = returned]_vars
  BY DEF Next, Put, Get, GetAwaits, GetReturnsNull, GetReturnsObject,
         SpuriousWakeup, Wakeup, vars
<1>. QED
  BY <1>1, PTL DEF Spec, NothingAfterWakeup

-----------------------------------------------------------------------------
(* Storage implements the closable queue of FifoQueue.tla: its wait set,    *)
(* its signals and its second calls of wakeup() are stuttering steps.       *)
THEOREM StorageIsFifoQueue == Spec => Queue!Spec
<1>. DEFINE left == {c \in Consumers : pc[c] = "gone"}
<1>1. Init => Queue!Init
  BY DEF Init, Queue!Init
<1>2. TypeOK /\ [Next]_vars => [Queue!Next]_(Queue!qvars)
  <2>. SUFFICES ASSUME TypeOK, [Next]_vars
                PROVE  Queue!Next \/ UNCHANGED <<container, wakeupState, left>>
    BY DEF Queue!qvars
  <2>. USE DEF TypeOK
  <2>1. ASSUME NEW p \in Producers, Put(p) PROVE Queue!Add
    <3>1. [by |-> p, n |-> puts[p] + 1] \in Objects
      BY <2>1, StorageAssumption DEF Put, Objects, StorageAssumption
    <3>2. left' = left
      BY <2>1 DEF Put, Signal, Waiting
    <3>. QED
      BY <2>1, <3>1, <3>2 DEF Put, Queue!Add
  <2>2. ASSUME NEW c \in Consumers, GetAwaits(c)
        PROVE  UNCHANGED <<container, wakeupState, left>>
    BY <2>2 DEF GetAwaits, AtLoopTest
  <2>3. ASSUME NEW c \in Consumers, GetReturnsNull(c) PROVE Queue!Leave(c)
    <3>1. c \notin left /\ left' = left \cup {c}
      BY <2>3 DEF GetReturnsNull, AtLoopTest
    <3>. QED
      BY <2>3, <3>1 DEF GetReturnsNull, Queue!Leave
  <2>4. ASSUME NEW c \in Consumers, GetReturnsObject(c) PROVE Queue!Take
    <3>1. left' = left
      BY <2>4 DEF GetReturnsObject, AtLoopTest
    <3>. QED
      BY <2>4, <3>1 DEF GetReturnsObject, Queue!Take
  <2>5. ASSUME NEW c \in Consumers, SpuriousWakeup(c)
        PROVE  UNCHANGED <<container, wakeupState, left>>
    BY <2>5 DEF SpuriousWakeup
  <2>6. CASE Wakeup
    <3>1. left' = left
      BY <2>6 DEF Wakeup, SignalAll, Waiting
    <3>2. CASE wakeupState
      BY <2>6, <3>1, <3>2 DEF Wakeup
    <3>3. CASE ~wakeupState
      BY <2>6, <3>1, <3>3 DEF Wakeup, Queue!Close, Queue!Next
    <3>. QED
      BY <3>2, <3>3
  <2>7. CASE UNCHANGED vars
    BY <2>7 DEF vars
  <2>. QED
    BY <2>1, <2>2, <2>3, <2>4, <2>5, <2>6, <2>7 DEF Next, Get, Queue!Next
<1>. QED
  BY <1>1, <1>2, TypeCorrect, PTL DEF Spec, Queue!Spec

-----------------------------------------------------------------------------
(* The threads                                                              *)

(* Where the threads may be, seen from main and from the Sender.            *)
Order ==
  /\ socketOpen \/ main = "done"
  /\ main \in {"start", "connect", "startSender"} => sender = "new"
  /\ main \in {"joinReciever", "close", "done"} => Joinable(sender)
  /\ main \in {"close", "done"} => Joinable(reciever)
  /\ sender = "new" =>
       checker = "get" /\ checkQueue = <<>> /\ ~stopChecker /\ ~checkWakeup
  /\ sender \in {"get", "sending", "putTask", "test"} =>
       checker # "done" /\ ~stopChecker /\ ~checkWakeup
  /\ sender = "done" => checker = "done"

IInv == ThreadsTypeOK /\ Order

MainStep == Startup \/ Work \/ ReadsLine \/ EndOfInput \/ Cleanup

USE DEF Main, Sender, Checker, Reciever, Joinable, flags, messages, tasks, counters,
        MessageQueue!qvars, CheckQueue!qvars

(* ThreadsTypeOK in three parts: the provers take strings, Booleans and numbers    *)
(* best by themselves.                                                      *)
Places ==
  /\ main \in {"start", "connect", "startSender", "startReciever", "read",
               "stopSender", "stopReciever", "wakeup", "joinSender",
               "joinReciever", "close", "done"}
  /\ sender \in {"new", "get", "sending", "putTask", "test", "stopChecker",
                 "wakeupChecker", "joinChecker", "done"}
  /\ checker \in {"get", "check", "putTask", "test", "done"}
  /\ reciever \in {"new", "receive", "relay", "answer", "test", "done"}

Switches ==
  /\ stopSender \in BOOLEAN /\ stopChecker \in BOOLEAN /\ stopReciever \in BOOLEAN
  /\ messageWakeup \in BOOLEAN /\ checkWakeup \in BOOLEAN /\ socketOpen \in BOOLEAN
  /\ messageLeft \subseteq {"sender"}
  /\ checkLeft \subseteq {"checker"}

Data ==
  /\ toSend \in 0..MaxNodes
  /\ messageQueue \in Seq({"message"})
  /\ checkQueue \in Seq({"task"})
  /\ lines \in 0..MaxLines
  /\ accepted \in 0..MaxAccepted

LEMMA TypeParts ==
  /\ ThreadsTypeOK => Places /\ Switches /\ Data
  /\ Places' /\ Switches' /\ Data' => ThreadsTypeOK'
  BY Zenon DEF ThreadsTypeOK, Places, Switches, Data

(* The initial state.                                                       *)
LEMMA InitIInv == ThreadsInit => IInv
<1>. SUFFICES ASSUME ThreadsInit PROVE IInv
  OBVIOUS
<1>. USE DEF ThreadsInit, MessageQueue!Init, CheckQueue!Init
<1>1. Places
  BY DEF Places
<1>2. Switches
  BY Zenon DEF Switches
<1>3. Data
  BY LifecycleAssumption DEF Data, LifecycleAssumption
<1>4. ThreadsTypeOK
  BY <1>1, <1>2, <1>3, Zenon DEF ThreadsTypeOK, Places, Switches, Data
<1>5. Order
  BY DEF Order
<1>. QED
  BY <1>4, <1>5 DEF IInv

(* Types: a step of main.                                                  *)
LEMMA MainTypes == ASSUME ThreadsTypeOK, MainStep PROVE ThreadsTypeOK'
<1>1. Places /\ Switches /\ Data
  BY TypeParts
<1>2. Places'
  BY <1>1 DEF Places,
     MainStep, Startup, Work, Cleanup, StartsConnect, StartsWork,
     ConnectTimesOut, StartSender, StartReciever, ReadsLine, EndOfInput,
     StopsSender, StopsReciever, WakesSender, JoinsSender, JoinsReciever,
     ClosesSocket
<1>3. Switches'
  <2>1. CASE UNCHANGED <<flags, messageWakeup, messageLeft, checkWakeup, checkLeft, socketOpen>>
    BY <1>1, <2>1, Zenon DEF Switches
  <2>2. CASE StopsSender
    BY <1>1, <2>2, Zenon DEF Switches, StopsSender
  <2>3. CASE StopsReciever
    BY <1>1, <2>3, Zenon DEF Switches, StopsReciever
  <2>4. CASE WakesSender
    BY <1>1, <2>4, Zenon DEF Switches, WakesSender, MessageQueue!Close
  <2>5. CASE ClosesSocket
    BY <1>1, <2>5, Zenon DEF Switches, ClosesSocket
  <2>. QED
    BY <2>1, <2>2, <2>3, <2>4, <2>5, Zenon DEF
       MainStep, Startup, Work, Cleanup, StartsConnect, StartsWork,
       ConnectTimesOut, StartSender, StartReciever, ReadsLine, EndOfInput,
       JoinsSender, JoinsReciever, MessageQueue!Add
<1>4. Data'
  <2>1. CASE UNCHANGED <<toSend, messageQueue, checkQueue, lines, accepted>>
    BY <1>1, <2>1 DEF Data
  <2>2. CASE ReadsLine
    BY <1>1, <2>2, LifecycleAssumption DEF Data, LifecycleAssumption, ReadsLine, MessageQueue!Add
  <2>. QED
    BY <2>1, <2>2, Zenon DEF
       MainStep, Startup, Work, Cleanup, StartsConnect, StartsWork,
       ConnectTimesOut, StartSender, StartReciever, EndOfInput, StopsSender,
       StopsReciever, WakesSender, JoinsSender, JoinsReciever, ClosesSocket,
       MessageQueue!Close
<1>. QED
  BY <1>2, <1>3, <1>4, TypeParts

(* Types: a step of the Sender.                                            *)
LEMMA SenderTypes == ASSUME ThreadsTypeOK, SenderStep PROVE ThreadsTypeOK'
<1>1. Places /\ Switches /\ Data
  BY TypeParts
<1>2. Places'
  BY <1>1 DEF Places,
     SenderStep, TakesMessage, SenderGetsNull, SendsDatagram, SendThrows,
     PutsTask, SentToAll, SenderTestsFlag, StopsChecker, WakesChecker,
     JoinsChecker
<1>3. Switches'
  <2>1. CASE UNCHANGED <<flags, messageWakeup, messageLeft, checkWakeup, checkLeft, socketOpen>>
    BY <1>1, <2>1, Zenon DEF Switches
  <2>2. CASE SenderGetsNull
    BY <1>1, <2>2, Zenon DEF Switches, SenderGetsNull, MessageQueue!Leave
  <2>3. CASE StopsChecker
    BY <1>1, <2>3, Zenon DEF Switches, StopsChecker
  <2>4. CASE WakesChecker
    BY <1>1, <2>4, Zenon DEF Switches, WakesChecker, CheckQueue!Close
  <2>. QED
    BY <2>1, <2>2, <2>3, <2>4, Zenon DEF
       SenderStep, TakesMessage, SendsDatagram, SendThrows, PutsTask,
       SentToAll, SenderTestsFlag, JoinsChecker, CheckQueue!Add,
       MessageQueue!Take
<1>4. Data'
  <2>1. CASE UNCHANGED <<toSend, messageQueue, checkQueue, lines, accepted>>
    BY <1>1, <2>1 DEF Data
  <2>2. CASE TakesMessage
    BY <1>1, <2>2, LifecycleAssumption DEF Data, LifecycleAssumption, TakesMessage, MessageQueue!Take
  <2>3. CASE PutsTask
    BY <1>1, <2>3, LifecycleAssumption DEF Data, LifecycleAssumption, PutsTask, CheckQueue!Add
  <2>4. CASE SendsDatagram
    BY <1>1, <2>4, LifecycleAssumption DEF Data, LifecycleAssumption, SendsDatagram
  <2>5. CASE SendThrows
    BY <1>1, <2>5, LifecycleAssumption DEF Data, LifecycleAssumption, SendThrows
  <2>. QED
    BY <2>1, <2>2, <2>3, <2>4, <2>5, Zenon DEF
       SenderStep, SenderGetsNull, SentToAll, SenderTestsFlag, StopsChecker,
       WakesChecker, JoinsChecker, CheckQueue!Close, MessageQueue!Leave
<1>. QED
  BY <1>2, <1>3, <1>4, TypeParts

(* Types: a step of the Checker.                                           *)
LEMMA CheckerTypes == ASSUME ThreadsTypeOK, CheckerStep PROVE ThreadsTypeOK'
<1>1. Places /\ Switches /\ Data
  BY TypeParts
<1>2. Places'
  BY <1>1 DEF Places,
     CheckerStep, TakesTask, CheckerGetsNull, DropsTask, Resends,
     RequeuesTask, CheckerTestsFlag
<1>3. Switches'
  <2>1. CASE UNCHANGED <<flags, messageWakeup, messageLeft, checkWakeup, checkLeft, socketOpen>>
    BY <1>1, <2>1, Zenon DEF Switches
  <2>2. CASE CheckerGetsNull
    BY <1>1, <2>2, Zenon DEF Switches, CheckerGetsNull, CheckQueue!Leave
  <2>. QED
    BY <2>1, <2>2, Zenon DEF
       CheckerStep, TakesTask, DropsTask, Resends, RequeuesTask,
       CheckerTestsFlag, CheckQueue!Add, CheckQueue!Take
<1>4. Data'
  <2>1. CASE UNCHANGED <<toSend, messageQueue, checkQueue, lines, accepted>>
    BY <1>1, <2>1 DEF Data
  <2>2. CASE TakesTask
    BY <1>1, <2>2, LifecycleAssumption DEF Data, LifecycleAssumption, TakesTask, CheckQueue!Take
  <2>3. CASE RequeuesTask
    BY <1>1, <2>3, LifecycleAssumption DEF Data, LifecycleAssumption, RequeuesTask, CheckQueue!Add
  <2>. QED
    BY <2>1, <2>2, <2>3, Zenon DEF
       CheckerStep, CheckerGetsNull, DropsTask, Resends, CheckerTestsFlag,
       CheckQueue!Leave
<1>. QED
  BY <1>2, <1>3, <1>4, TypeParts

(* Types: a step of the Reciever.                                          *)
LEMMA RecieverTypes == ASSUME ThreadsTypeOK, RecieverStep PROVE ThreadsTypeOK'
<1>1. Places /\ Switches /\ Data
  BY TypeParts
<1>2. Places'
  BY <1>1 DEF Places,
     RecieverStep, RecieverAlone, ReceiveTimesOut, AcceptsMessage,
     RelaysMessage, AddsNode, Answers, RecieverDies, RecieverTestsFlag
<1>3. Switches'
  <2>1. CASE UNCHANGED <<flags, messageWakeup, messageLeft, checkWakeup, checkLeft, socketOpen>>
    BY <1>1, <2>1, Zenon DEF Switches
  <2>. QED
    BY <2>1, Zenon DEF
       RecieverStep, RecieverAlone, ReceiveTimesOut, AcceptsMessage,
       RelaysMessage, AddsNode, Answers, RecieverDies, RecieverTestsFlag,
       MessageQueue!Add
<1>4. Data'
  <2>1. CASE UNCHANGED <<toSend, messageQueue, checkQueue, lines, accepted>>
    BY <1>1, <2>1 DEF Data
  <2>2. CASE RelaysMessage
    BY <1>1, <2>2, LifecycleAssumption DEF Data, LifecycleAssumption, RelaysMessage, MessageQueue!Add
  <2>3. CASE AcceptsMessage
    BY <1>1, <2>3, LifecycleAssumption DEF Data, LifecycleAssumption, AcceptsMessage
  <2>. QED
    BY <2>1, <2>2, <2>3, Zenon DEF
       RecieverStep, RecieverAlone, ReceiveTimesOut, AddsNode, Answers,
       RecieverDies, RecieverTestsFlag
<1>. QED
  BY <1>2, <1>3, <1>4, TypeParts

(* The order of the threads: a step of main.                                *)
LEMMA MainOrder == ASSUME ThreadsTypeOK, Order, MainStep PROVE Order'
<1>1. CASE Startup \/ Work
  <2>1. CASE StartsConnect \/ StartsWork \/ ConnectTimesOut
    BY <2>1 DEF Order, StartsConnect, StartsWork, ConnectTimesOut
  <2>2. CASE StartSender
    BY <2>2 DEF Order, StartSender
  <2>3. CASE StartReciever
    BY <2>3 DEF Order, StartReciever
  <2>. QED
    BY <1>1, <2>1, <2>2, <2>3 DEF Startup, Work
<1>2. CASE ReadsLine \/ EndOfInput
  BY <1>2 DEF Order, ReadsLine, EndOfInput
<1>3. CASE Cleanup
  BY <1>3 DEF Order, Cleanup, StopsSender, StopsReciever, WakesSender, JoinsSender,
     JoinsReciever, ClosesSocket
<1>. QED
  BY <1>1, <1>2, <1>3 DEF MainStep

(* The order of the threads: a step of the Sender.                          *)
LEMMA SenderOrder == ASSUME ThreadsTypeOK, Order, SenderStep PROVE Order'
<1>1. CASE TakesMessage \/ SenderGetsNull \/ SendsDatagram \/ SendThrows \/ SentToAll
  BY <1>1 DEF Order, TakesMessage, SenderGetsNull, SendsDatagram, SendThrows, SentToAll
<1>2. CASE PutsTask \/ SenderTestsFlag
  BY <1>2 DEF Order, PutsTask, SenderTestsFlag, CheckQueue!Add
<1>3. CASE StopsChecker \/ WakesChecker
  BY <1>3 DEF Order, StopsChecker, WakesChecker, CheckQueue!Close
<1>4. CASE JoinsChecker
  BY <1>4 DEF Order, JoinsChecker, ThreadsTypeOK
<1>. QED
  BY <1>1, <1>2, <1>3, <1>4 DEF SenderStep

(* The order of the threads: a step of the Checker.                         *)
LEMMA CheckerOrder == ASSUME ThreadsTypeOK, Order, CheckerStep PROVE Order'
<1>1. CASE TakesTask
  BY <1>1 DEF Order, TakesTask, CheckQueue!Take
<1>2. CASE CheckerGetsNull
  BY <1>2 DEF Order, CheckerGetsNull, CheckQueue!Leave
<1>3. CASE DropsTask \/ Resends \/ RequeuesTask \/ CheckerTestsFlag
  BY <1>3 DEF Order, DropsTask, Resends, RequeuesTask, CheckerTestsFlag, CheckQueue!Add
<1>. QED
  BY <1>1, <1>2, <1>3 DEF CheckerStep

(* The order of the threads: a step of the Reciever.                        *)
LEMMA RecieverOrder == ASSUME ThreadsTypeOK, Order, RecieverStep PROVE Order'
  BY DEF Order, RecieverStep, RecieverAlone, ReceiveTimesOut, RelaysMessage, Answers,
     RecieverTestsFlag, AcceptsMessage, AddsNode, RecieverDies

LEMMA StepIInv == IInv /\ [ThreadsNext]_threadsVars => IInv'
<1>. SUFFICES ASSUME ThreadsTypeOK, Order, [ThreadsNext]_threadsVars PROVE ThreadsTypeOK' /\ Order'
  BY DEF IInv
<1>1. CASE MainStep
  BY <1>1, MainTypes, MainOrder
<1>2. CASE SenderStep
  BY <1>2, SenderTypes, SenderOrder
<1>3. CASE CheckerStep
  BY <1>3, CheckerTypes, CheckerOrder
<1>4. CASE RecieverStep
  BY <1>4, RecieverTypes, RecieverOrder
<1>5. CASE UNCHANGED threadsVars
  BY <1>5 DEF threadsVars, ThreadsTypeOK, Order
<1>. QED
  BY <1>1, <1>2, <1>3, <1>4, <1>5 DEF ThreadsNext, MainStep

(* The inductive invariant holds in every reachable state.                  *)
THEOREM Invariance == ThreadsSpec => []IInv
  BY InitIInv, StepIInv, PTL DEF ThreadsSpec

(* The type invariant.                                                      *)
THEOREM ThreadsTypeCorrect == ThreadsSpec => []ThreadsTypeOK
  BY Invariance, PTL DEF IInv

(* main closes the socket under no thread that uses it.                     *)
THEOREM SocketClosedLast == ThreadsSpec => []NothingRunsAfterClose
<1>1. IInv => NothingRunsAfterClose
  BY DEF IInv, Order, NothingRunsAfterClose
<1>. QED
  BY <1>1, Invariance, PTL

(* No CheckTask is put in the queue of a Checker that has ended.            *)
THEOREM CheckerOutlivesTasks == ThreadsSpec => []TasksHaveAChecker
<1>1. IInv => TasksHaveAChecker
  BY DEF IInv, Order, TasksHaveAChecker
<1>. QED
  BY <1>1, Invariance, PTL
===============================================================================
