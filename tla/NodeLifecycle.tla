---------------------------- MODULE NodeLifecycle ----------------------------
(***************************************************************************)
(* The four threads of one program of the UDP tree chat (third lab) from   *)
(* the end of Server's constructor to their end: main (Server.connect,     *)
(* work, cleanup), Sender, Checker and Reciever, their stop flags, the     *)
(* socket and the two Storages they share, which are used here through     *)
(* what a Storage promises (FifoQueue).                                    *)
(*                                                                         *)
(* What a message says, and whether a check resends or gives up, is not    *)
(* told apart: Link models it.  Thread.start() of the Checker is done by   *)
(* the constructor of Sender.  The names that Storage has too, such as     *)
(* Init, are others here (ThreadsInit), so that ThreadsProofs can be about *)
(* both.                                                                   *)
(***************************************************************************)
EXTENDS Naturals, Sequences

CONSTANTS MaxLines,     \* bound: lines read from standard input
          MaxAccepted,  \* bound: messages accepted from neighbours
          MaxNodes      \* bound: neighbours of the program

ASSUME LifecycleAssumption ==
  /\ MaxLines \in Nat
  /\ MaxAccepted \in Nat
  /\ MaxNodes \in Nat

VARIABLES main, sender, checker, reciever,     \* where each thread is
          toSend,                              \* neighbours of the snapshot that
                                               \* Sender has still to serve
          stopSender, stopChecker, stopReciever,   \* the flags "stopping"
          messageQueue, messageWakeup, messageLeft,
          checkQueue, checkWakeup, checkLeft,
          socketOpen,
          lines, accepted                      \* counters for the bounds

messages == <<messageQueue, messageWakeup, messageLeft>>
tasks == <<checkQueue, checkWakeup, checkLeft>>
flags == <<stopSender, stopChecker, stopReciever>>
counters == <<lines, accepted>>
threadsVars == <<main, sender, checker, reciever, toSend, flags, messages,
                 tasks, socketOpen, counters>>

MessageQueue == INSTANCE FifoQueue WITH
  Users <- {"sender"}, Objects <- {"message"},
  queue <- messageQueue, closed <- messageWakeup, left <- messageLeft

CheckQueue == INSTANCE FifoQueue WITH
  Users <- {"checker"}, Objects <- {"task"},
  queue <- checkQueue, closed <- checkWakeup, left <- checkLeft

ThreadsInit ==
  /\ main = "start"
  /\ sender = "new"
  /\ checker = "get"
  /\ reciever = "new"
  /\ toSend = 0
  /\ stopSender = FALSE /\ stopChecker = FALSE /\ stopReciever = FALSE
  /\ MessageQueue!Init
  /\ CheckQueue!Init
  /\ socketOpen = TRUE
  /\ lines = 0 /\ accepted = 0

(* The steps of a thread: from one place to the next.                       *)
Main(from, to) == main = from /\ main' = to /\ UNCHANGED <<sender, checker, reciever, toSend>>
Sender(from, to) == sender = from /\ sender' = to /\ UNCHANGED <<main, checker, reciever>>
Checker(from, to) == checker = from /\ checker' = to /\ UNCHANGED <<main, sender, reciever, toSend>>
Reciever(from, to) == reciever = from /\ reciever' = to /\ UNCHANGED <<main, sender, checker, toSend>>

(* Thread.join(): returns for a thread that ended or was never started.     *)
Joinable(place) == place \in {"new", "done"}

-----------------------------------------------------------------------------
(* Faults a change of the code could introduce; each must make one of the   *)
(* properties below fail.  They are used by no specification.               *)

(* Sender does not wait for the Checker.                                    *)
FaultSenderDoesNotJoin ==
  /\ Sender("joinChecker", "done")
  /\ UNCHANGED <<toSend, flags, messages, tasks, socketOpen, counters>>

(* The socket has no timeout: receive() returns for a packet only.          *)
FaultNoTimeout ==
  /\ Reciever("receive", "test")
  /\ accepted < MaxAccepted
  /\ accepted' = accepted + 1
  /\ UNCHANGED <<flags, messages, tasks, socketOpen, lines>>

-----------------------------------------------------------------------------
(* main: Server.main, connect, work and cleanup.                            *)

StartsConnect ==
  /\ Main("start", "connect")
  /\ UNCHANGED <<flags, messages, tasks, socketOpen, counters>>

(* connect() was answered or failed with an IOException, or there is nobody *)
(* to connect to: work() is called.                                         *)
StartsWork ==
  /\ main \in {"start", "connect"}
  /\ Main(main, "startSender")
  /\ UNCHANGED <<flags, messages, tasks, socketOpen, counters>>

(* No answer within socketTimeout: "Cannot register, closing now".          *)
ConnectTimesOut ==
  /\ Main("connect", "stopSender")
  /\ UNCHANGED <<flags, messages, tasks, socketOpen, counters>>

StartSender ==
  /\ main = "startSender"
  /\ main' = "startReciever"
  /\ sender' = "get"
  /\ UNCHANGED <<checker, reciever, toSend, flags, messages, tasks, socketOpen, counters>>

StartReciever ==
  /\ main = "startReciever"
  /\ main' = "read"
  /\ reciever' = "receive"
  /\ UNCHANGED <<sender, checker, toSend, flags, messages, tasks, socketOpen, counters>>

ReadsLine ==
  /\ Main("read", "read")
  /\ lines < MaxLines
  /\ lines' = lines + 1
  /\ MessageQueue!Add
  /\ UNCHANGED <<flags, tasks, socketOpen, accepted>>

EndOfInput ==
  /\ Main("read", "stopSender")
  /\ UNCHANGED <<flags, messages, tasks, socketOpen, counters>>

StopsSender ==
  /\ Main("stopSender", "stopReciever")
  /\ stopSender' = TRUE
  /\ UNCHANGED <<stopChecker, stopReciever, messages, tasks, socketOpen, counters>>

StopsReciever ==
  /\ Main("stopReciever", "wakeup")
  /\ stopReciever' = TRUE
  /\ UNCHANGED <<stopSender, stopChecker, messages, tasks, socketOpen, counters>>

WakesSender ==
  /\ Main("wakeup", "joinSender")
  /\ MessageQueue!Close
  /\ UNCHANGED <<flags, tasks, socketOpen, counters>>

JoinsSender ==
  /\ Main("joinSender", "joinReciever")
  /\ Joinable(sender)
  /\ UNCHANGED <<flags, messages, tasks, socketOpen, counters>>

JoinsReciever ==
  /\ Main("joinReciever", "close")
  /\ Joinable(reciever)
  /\ UNCHANGED <<flags, messages, tasks, socketOpen, counters>>

ClosesSocket ==
  /\ Main("close", "done")
  /\ socketOpen' = FALSE
  /\ UNCHANGED <<flags, messages, tasks, counters>>

-----------------------------------------------------------------------------
(* Sender.run                                                               *)

(* The iteration over nodes works on a snapshot of the list; some of it may *)
(* be skipped because the message came from there.                          *)
TakesMessage ==
  /\ Sender("get", "sending")
  /\ MessageQueue!Take
  /\ toSend' \in 0..MaxNodes
  /\ UNCHANGED <<flags, tasks, socketOpen, counters>>

SenderGetsNull ==
  /\ Sender("get", "stopChecker")
  /\ MessageQueue!Leave("sender")
  /\ UNCHANGED <<toSend, flags, tasks, socketOpen, counters>>

SendsDatagram ==
  /\ Sender("sending", "putTask")
  /\ toSend > 0
  /\ toSend' = toSend - 1
  /\ UNCHANGED <<flags, messages, tasks, socketOpen, counters>>

(* The IOException ends the loop over the neighbours, not the thread.       *)
SendThrows ==
  /\ Sender("sending", "test")
  /\ toSend > 0
  /\ toSend' = 0
  /\ UNCHANGED <<flags, messages, tasks, socketOpen, counters>>

PutsTask ==
  /\ Sender("putTask", "sending")
  /\ CheckQueue!Add
  /\ UNCHANGED <<toSend, flags, messages, socketOpen, counters>>

SentToAll ==
  /\ Sender("sending", "test")
  /\ toSend = 0
  /\ UNCHANGED <<toSend, flags, messages, tasks, socketOpen, counters>>

SenderTestsFlag ==
  /\ Sender("test", IF stopSender THEN "stopChecker" ELSE "get")
  /\ UNCHANGED <<toSend, flags, messages, tasks, socketOpen, counters>>

StopsChecker ==
  /\ Sender("stopChecker", "wakeupChecker")
  /\ stopChecker' = TRUE
  /\ UNCHANGED <<toSend, stopSender, stopReciever, messages, tasks, socketOpen, counters>>

WakesChecker ==
  /\ Sender("wakeupChecker", "joinChecker")
  /\ CheckQueue!Close
  /\ UNCHANGED <<toSend, flags, messages, socketOpen, counters>>

JoinsChecker ==
  /\ Sender("joinChecker", "done")
  /\ Joinable(checker)
  /\ UNCHANGED <<toSend, flags, messages, tasks, socketOpen, counters>>

-----------------------------------------------------------------------------
(* Checker.run                                                              *)

TakesTask ==
  /\ Checker("get", "check")
  /\ CheckQueue!Take
  /\ UNCHANGED <<flags, messages, socketOpen, counters>>

CheckerGetsNull ==
  /\ Checker("get", "done")
  /\ CheckQueue!Leave("checker")
  /\ UNCHANGED <<flags, messages, socketOpen, counters>>

(* The neighbour is removed, or its message is confirmed.                   *)
DropsTask ==
  /\ Checker("check", "test")
  /\ UNCHANGED <<flags, messages, tasks, socketOpen, counters>>

(* send(); an IOException is caught and changes nothing.                    *)
Resends ==
  /\ Checker("check", "putTask")
  /\ UNCHANGED <<flags, messages, tasks, socketOpen, counters>>

RequeuesTask ==
  /\ Checker("putTask", "test")
  /\ CheckQueue!Add
  /\ UNCHANGED <<flags, messages, socketOpen, counters>>

CheckerTestsFlag ==
  /\ Checker("test", IF stopChecker THEN "done" ELSE "get")
  /\ UNCHANGED <<flags, messages, tasks, socketOpen, counters>>

-----------------------------------------------------------------------------
(* Reciever.run                                                             *)

ReceiveTimesOut ==
  /\ Reciever("receive", "test")
  /\ UNCHANGED <<flags, messages, tasks, socketOpen, counters>>

AcceptsMessage ==
  /\ Reciever("receive", "relay")
  /\ accepted < MaxAccepted
  /\ accepted' = accepted + 1
  /\ UNCHANGED <<flags, messages, tasks, socketOpen, lines>>

RelaysMessage ==
  /\ Reciever("relay", "answer")
  /\ MessageQueue!Add
  /\ UNCHANGED <<flags, tasks, socketOpen, counters>>

(* A registration: the node is added to the list, then answered.            *)
AddsNode ==
  /\ Reciever("receive", "answer")
  /\ UNCHANGED <<flags, messages, tasks, socketOpen, counters>>

(* send() of the confirm or of the name; an IOException is caught.          *)
Answers ==
  /\ Reciever("answer", "test")
  /\ UNCHANGED <<flags, messages, tasks, socketOpen, counters>>

(* A packet without a zero byte (256 bytes and more) or with a number that  *)
(* does not parse raises an exception that is not caught.                   *)
RecieverDies ==
  /\ Reciever("receive", "done")
  /\ UNCHANGED <<flags, messages, tasks, socketOpen, counters>>

RecieverTestsFlag ==
  /\ Reciever("test", IF stopReciever THEN "done" ELSE "receive")
  /\ UNCHANGED <<flags, messages, tasks, socketOpen, counters>>

-----------------------------------------------------------------------------
Startup == StartsConnect \/ StartsWork \/ ConnectTimesOut
Work == StartSender \/ StartReciever
Cleanup ==
  \/ StopsSender \/ StopsReciever \/ WakesSender
  \/ JoinsSender \/ JoinsReciever \/ ClosesSocket

SenderStep ==
  \/ TakesMessage \/ SenderGetsNull \/ SendsDatagram \/ SendThrows \/ PutsTask
  \/ SentToAll \/ SenderTestsFlag \/ StopsChecker \/ WakesChecker \/ JoinsChecker

CheckerStep ==
  \/ TakesTask \/ CheckerGetsNull \/ DropsTask \/ Resends \/ RequeuesTask
  \/ CheckerTestsFlag

(* What the Reciever does without a packet: packets may stop coming.        *)
RecieverAlone ==
  ReceiveTimesOut \/ RelaysMessage \/ Answers \/ RecieverTestsFlag

RecieverStep == RecieverAlone \/ AcceptsMessage \/ AddsNode \/ RecieverDies

ThreadsNext ==
  \/ Startup \/ Work \/ ReadsLine \/ EndOfInput \/ Cleanup
  \/ SenderStep \/ CheckerStep \/ RecieverStep

ThreadsSpec == ThreadsInit /\ [][ThreadsNext]_threadsVars

(* A thread that can run does; receive() returns within socketTimeout.      *)
(* Nothing is assumed of the user, of the answer to connect() or of the     *)
(* packets that come.                                                       *)
ThreadsFairness ==
  /\ WF_threadsVars(Startup \/ Work \/ Cleanup)
  /\ WF_threadsVars(SenderStep)
  /\ WF_threadsVars(CheckerStep)
  /\ WF_threadsVars(RecieverAlone)

ThreadsFairSpec == ThreadsSpec /\ ThreadsFairness

-----------------------------------------------------------------------------
(* Every variable has its type.                                             *)
ThreadsTypeOK ==
  /\ main \in {"start", "connect", "startSender", "startReciever", "read",
               "stopSender", "stopReciever", "wakeup", "joinSender",
               "joinReciever", "close", "done"}
  /\ sender \in {"new", "get", "sending", "putTask", "test", "stopChecker",
                 "wakeupChecker", "joinChecker", "done"}
  /\ checker \in {"get", "check", "putTask", "test", "done"}
  /\ reciever \in {"new", "receive", "relay", "answer", "test", "done"}
  /\ toSend \in 0..MaxNodes
  /\ stopSender \in BOOLEAN /\ stopChecker \in BOOLEAN /\ stopReciever \in BOOLEAN
  /\ messageQueue \in Seq({"message"}) /\ messageWakeup \in BOOLEAN
  /\ messageLeft \subseteq {"sender"}
  /\ checkQueue \in Seq({"task"}) /\ checkWakeup \in BOOLEAN
  /\ checkLeft \subseteq {"checker"}
  /\ socketOpen \in BOOLEAN
  /\ lines \in 0..MaxLines /\ accepted \in 0..MaxAccepted

(* The socket is closed under no thread that uses it: cleanup() waits for   *)
(* the Reciever itself and, through Sender, for the Checker.  When connect()*)
(* failed the Checker still waits, but for a task that cannot come.         *)
NothingRunsAfterClose ==
  ~socketOpen => /\ Joinable(sender)
                 /\ Joinable(reciever)
                 /\ checker = "done" \/ (checker = "get" /\ checkQueue = <<>>)

(* A CheckTask is never put in the queue of a Checker that has ended: the   *)
(* message would be sent unchecked.                                         *)
TasksHaveAChecker ==
  sender \in {"get", "sending", "putTask", "test"} => checker # "done"

AllDone ==
  main = "done" /\ Joinable(sender) /\ Joinable(reciever) /\ checker = "done"

(* After the end of the input a program that was working stops, wherever    *)
(* its threads are and whatever neighbours still send; also when its        *)
(* Reciever has died.                                                       *)
QuitTerminates ==
  main = "stopSender" /\ sender # "new" ~> AllDone
=============================================================================
