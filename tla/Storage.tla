------------------------------- MODULE Storage -------------------------------
(***************************************************************************)
(* Containers/Storage.java of the third lab: the blocking queue that every *)
(* pair of threads of the UDP tree chat communicates through.              *)
(*                                                                         *)
(* Every method runs under one ReentrantLock, so a critical section is one *)
(* action.  Only get() gives the lock up in the middle, in                 *)
(* notEmpty.await(): a consumer is then in the condition's wait set        *)
(* ("waiting") until put() or wakeup() moves it to the lock's own queue    *)
(* ("signalled"), from where it re-evaluates the loop condition.  Java     *)
(* lets await() return spuriously.  Nobody ever awaits the condition       *)
(* "update", so its signals are no state change.                           *)
(*                                                                         *)
(* The consumers are the loops of Sender.run and Checker.run: they call    *)
(* get() again after every object and leave when they get null.            *)
(***************************************************************************)
EXTENDS Naturals, Sequences, FiniteSets

CONSTANTS Consumers,   \* threads that call get() in a loop
          Producers,   \* threads that call put()
          MaxPuts      \* bound: objects one producer puts

ASSUME StorageAssumption ==
  /\ IsFiniteSet(Consumers)
  /\ MaxPuts \in Nat

VARIABLES container,   \* the ArrayList: objects put and not yet removed
          wakeupState, \* TRUE once wakeup() was called; never reset
          pc,          \* where each consumer is with respect to get()
          puts,        \* history: number of objects each producer has put
          putLog,      \* history: every object put, in the order of the lock
          returned     \* history: every object get() returned, in that order

vars == <<container, wakeupState, pc, puts, putLog, returned>>

PCs == {"running",   \* outside get(), before its next call
        "waiting",   \* in the wait set of notEmpty
        "signalled", \* moved out of the wait set, queued for the lock
        "gone"}      \* get() returned null: the loop was left

Objects == [by : Producers, n : 1..MaxPuts]

Waiting == {c \in Consumers : pc[c] = "waiting"}
Signalled == {c \in Consumers : pc[c] = "signalled"}

Init ==
  /\ container = <<>>
  /\ wakeupState = FALSE
  /\ pc = [c \in Consumers |-> "running"]
  /\ puts = [p \in Producers |-> 0]
  /\ putLog = <<>>
  /\ returned = <<>>

-----------------------------------------------------------------------------
(* Faults a change of Storage.java could introduce; each must make one of    *)
(* the properties below fail.  They are used by no specification.           *)

(* put() signals only when the list was empty before. *)
FaultSignalWhenEmpty ==
  \/ /\ Waiting = {} \/ container # <<>>
     /\ UNCHANGED pc
  \/ /\ container = <<>>
     /\ \E c \in Waiting : pc' = [pc EXCEPT ![c] = "signalled"]

(* wakeup() uses signal() where signalAll() is needed. *)
FaultSignalAllIsSignal ==
  \/ Waiting = {} /\ UNCHANGED pc
  \/ \E c \in Waiting : pc' = [pc EXCEPT ![c] = "signalled"]

(* get() empties the list before it honours wakeup(). *)
FaultGetDrains(c) ==
  /\ pc[c] \in {"running", "signalled"}
  /\ container # <<>>
  /\ returned' = Append(returned, Head(container))
  /\ container' = Tail(container)
  /\ pc' = [pc EXCEPT ![c] = "running"]
  /\ UNCHANGED <<wakeupState, puts, putLog>>

-----------------------------------------------------------------------------
(* notEmpty.signal(): one waiter, if there is one, is moved to the lock's   *)
(* queue.                                                                   *)
Signal ==
  \/ /\ Waiting = {}
     /\ UNCHANGED pc
  \/ \E c \in Waiting : pc' = [pc EXCEPT ![c] = "signalled"]

(* notEmpty.signalAll() *)
SignalAll ==
  pc' = [c \in Consumers |-> IF c \in Waiting THEN "signalled" ELSE pc[c]]

Put(p) ==
  LET object == [by |-> p, n |-> puts[p] + 1] IN
  /\ puts[p] < MaxPuts
  /\ puts' = [puts EXCEPT ![p] = @ + 1]
  /\ container' = Append(container, object)
  /\ putLog' = Append(putLog, object)
  /\ Signal
  /\ UNCHANGED <<wakeupState, returned>>

(* get() from the test of the loop condition on, with the lock held: on the *)
(* call itself and again whenever await() returns.                          *)
AtLoopTest(c) == pc[c] \in {"running", "signalled"}

GetAwaits(c) ==
  /\ AtLoopTest(c)
  /\ ~wakeupState
  /\ container = <<>>
  /\ pc' = [pc EXCEPT ![c] = "waiting"]
  /\ UNCHANGED <<container, wakeupState, puts, putLog, returned>>

GetReturnsNull(c) ==
  /\ AtLoopTest(c)
  /\ wakeupState
  /\ pc' = [pc EXCEPT ![c] = "gone"]
  /\ UNCHANGED <<container, wakeupState, puts, putLog, returned>>

GetReturnsObject(c) ==
  /\ AtLoopTest(c)
  /\ ~wakeupState
  /\ container # <<>>
  /\ returned' = Append(returned, Head(container))
  /\ container' = Tail(container)
  /\ pc' = [pc EXCEPT ![c] = "running"]
  /\ UNCHANGED <<wakeupState, puts, putLog>>

Get(c) == GetAwaits(c) \/ GetReturnsNull(c) \/ GetReturnsObject(c)

(* await() may return without a signal. *)
SpuriousWakeup(c) ==
  /\ pc[c] = "waiting"
  /\ pc' = [pc EXCEPT ![c] = "signalled"]
  /\ UNCHANGED <<container, wakeupState, puts, putLog, returned>>

(* wakeup() is called by the thread that stops the consumers, and may be    *)
(* called again: Sender.run calls it from either of its two exits.          *)
Wakeup ==
  /\ wakeupState' = TRUE
  /\ SignalAll
  /\ UNCHANGED <<container, puts, putLog, returned>>

Next ==
  \/ \E p \in Producers : Put(p)
  \/ \E c \in Consumers : Get(c) \/ SpuriousWakeup(c)
  \/ Wakeup

Spec == Init /\ [][Next]_vars

(* A consumer thread that is not blocked in await() keeps running; nothing  *)
(* is assumed of the producers, of wakeup() or of spurious returns.         *)
Fairness == \A c \in Consumers : WF_vars(Get(c))

FairSpec == Spec /\ Fairness

-----------------------------------------------------------------------------
(* Every variable has its type.                                             *)
TypeOK ==
  /\ container \in Seq(Objects)
  /\ wakeupState \in BOOLEAN
  /\ pc \in [Consumers -> PCs]
  /\ puts \in [Producers -> 0..MaxPuts]
  /\ putLog \in Seq(Objects)
  /\ returned \in Seq(Objects)

(* Objects leave in the order they were put, none lost, none twice: what    *)
(* get() returned followed by what is still stored is what was put.         *)
Fifo == putLog = returned \o container

(* put() signals one waiter only.  That is enough: whenever a consumer is   *)
(* blocked, every stored object has another consumer on its way to it, and  *)
(* after wakeup() nobody is blocked at all.                                 *)
NoLostWakeup ==
  Waiting # {} => /\ ~wakeupState
                  /\ Len(container) <= Cardinality(Signalled)

(* The chat's shutdown relies on it: after wakeup() every consumer leaves   *)
(* its loop, whether it was blocked, running or signalled at the time, and  *)
(* whether or not objects are still stored.                                 *)
WakeupFreesConsumers ==
  wakeupState ~> \A c \in Consumers : pc[c] = "gone"

(* What is stored when wakeup() comes is dropped: no later step returns it. *)
NothingAfterWakeup ==
  [][wakeupState => returned' = returned]_vars

-----------------------------------------------------------------------------
(* The queue its users rely on (FifoQueue), with the lock, the wait set and *)
(* the signals hidden.                                                      *)
Queue == INSTANCE FifoQueue WITH
  Users <- Consumers,
  queue <- container,
  closed <- wakeupState,
  left <- {c \in Consumers : pc[c] = "gone"}

(* Storage implements the closable FIFO queue, liveness included.           *)
ImplementsFifoQueue == Queue!FairSpec
=============================================================================
