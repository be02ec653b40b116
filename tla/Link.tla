-------------------------------- MODULE Link --------------------------------
(***************************************************************************)
(* One direction of one link of the UDP tree chat (third lab): the Sender  *)
(* and Checker threads of a program A, the Reciever thread of its          *)
(* neighbour B, and the datagrams between them.  A numbers its messages    *)
(* (NodeInfo.sent), B accepts only the number it expects                   *)
(* (NodeInfo.recieved) and answers an accepted message with a confirm that *)
(* carries no number; A counts the confirms (NodeInfo.lastDelivered) and   *)
(* resends what the count does not cover.                                  *)
(*                                                                         *)
(* Datagrams are lost, delayed without bound and reordered; the network    *)
(* may duplicate at most MaxDups confirms.  send() may throw.  Timers are  *)
(* not modelled: a check may come at any time after its task was queued.   *)
(* The Checker's sleep with a task in hand is no state of its own: nothing *)
(* reads the task meanwhile, and requeueing puts it behind everything that *)
(* was queued during the sleep.                                            *)
(***************************************************************************)
EXTENDS Naturals, Sequences

CONSTANTS MaxSent,    \* bound: messages A sends on the link
          MaxFailed,  \* Checker.maxFailed
          MaxDups     \* bound: confirms the network duplicates

ASSUME LinkAssumption ==
  /\ MaxSent \in Nat
  /\ MaxFailed \in Nat
  /\ MaxDups \in Nat

VARIABLES linked,        \* B is in A's list of nodes
          toSend,        \* A's Sender iterates over a snapshot of the list that
                         \* holds B and has not reached B yet
          sent,          \* NodeInfo.sent of B at A
          lastDelivered, \* NodeInfo.lastDelivered of B at A
          checkQueue,    \* A's CheckTasks for B, oldest first
          known,         \* A is in B's list of nodes
          received,      \* NodeInfo.recieved of A at B
          data,          \* messages in flight: number of copies of each uid
          confirms,      \* confirms in flight
          accepted,      \* history: uids B printed and relayed, in order
          failed,        \* history: uids whose first send() threw
          wasted,        \* history: attempts for each uid that were of no use: copies
                         \* lost, not sent, too early for B or accepted
                         \* unconfirmed, and checks that did not wait for the answer
          lostConfirms,  \* history: confirms lost, or that found B unlinked
          unconfirmed,   \* history: acceptances whose confirm could not be sent
          dups           \* history: confirms duplicated by the network

senderVars == <<linked, toSend, sent, lastDelivered, checkQueue>>
receiverVars == <<known, received>>
network == <<data, confirms>>
history == <<accepted, failed, wasted, lostConfirms, unconfirmed, dups>>
vars == <<senderVars, receiverVars, network, history>>

Uids == 1..MaxSent

Tasks == [uid : Uids, numFailed : 1..(MaxFailed + 1)]

Init ==
  /\ linked = TRUE
  /\ toSend = FALSE
  /\ sent = 0
  /\ lastDelivered = 0
  /\ checkQueue = <<>>
  /\ known = TRUE
  /\ received = 1
  /\ data = [u \in Uids |-> 0]
  /\ confirms = 0
  /\ accepted = <<>>
  /\ failed = {}
  /\ wasted = [u \in Uids |-> 0]
  /\ lostConfirms = 0
  /\ unconfirmed = 0
  /\ dups = 0

Arrives(u) ==
  /\ data[u] > 0
  /\ data' = [data EXCEPT ![u] = @ - 1]

Wasted(u) == wasted' = [wasted EXCEPT ![u] = @ + 1]

(* Neither datagram nor confirm is in flight: what the Checker finds when   *)
(* the round trip stays below CheckTask.comfirmTimeout (5 s).               *)
Quiet == confirms = 0 /\ \A u \in Uids : data[u] = 0

Requeued(task) == [task EXCEPT !.numFailed = @ + 1]

-----------------------------------------------------------------------------
(* Faults a change of the code could introduce; each must make one of the   *)
(* properties below fail.  They are used by no specification.               *)

(* B accepts any number that is not older than the expected one.            *)
FaultAcceptNewer(u) ==
  /\ Arrives(u)
  /\ known
  /\ u >= received
  /\ accepted' = Append(accepted, u)
  /\ confirms' = confirms + 1
  /\ received' = u + 1
  /\ UNCHANGED <<senderVars, known, failed, wasted, lostConfirms, unconfirmed, dups>>

(* A task is dropped one confirm too early.                                 *)
FaultDoneTooEarly ==
  /\ checkQueue # <<>>
  /\ Head(checkQueue).numFailed <= MaxFailed
  /\ Head(checkQueue).uid <= lastDelivered + 1
  /\ checkQueue' = Tail(checkQueue)
  /\ UNCHANGED <<linked, toSend, sent, lastDelivered, receiverVars, network, history>>

(* The failures are compared with >= instead of >.                          *)
FaultRemovedTooEarly ==
  /\ checkQueue # <<>>
  /\ Head(checkQueue).numFailed >= MaxFailed
  /\ linked' = FALSE
  /\ checkQueue' = Tail(checkQueue)
  /\ UNCHANGED <<toSend, sent, lastDelivered, receiverVars, network, history>>

(* The task is queued again without updateTask().                           *)
FaultTaskNotUpdated ==
  /\ checkQueue # <<>>
  /\ Head(checkQueue).numFailed <= MaxFailed
  /\ Head(checkQueue).uid > lastDelivered
  /\ checkQueue' = Append(Tail(checkQueue), Head(checkQueue))
  /\ UNCHANGED <<linked, toSend, sent, lastDelivered, receiverVars, network, history>>

-----------------------------------------------------------------------------
(* A's Sender: run() takes a message and iterates over a snapshot of nodes. *)

TakeMessage ==
  /\ linked
  /\ ~toSend
  /\ sent < MaxSent
  /\ toSend' = TRUE
  /\ UNCHANGED <<linked, sent, lastDelivered, checkQueue,
                 receiverVars, network, history>>

(* The message came from B, or a send() to an earlier node of the snapshot  *)
(* threw and ended the loop.                                                *)
SkipNode ==
  /\ toSend
  /\ toSend' = FALSE
  /\ UNCHANGED <<linked, sent, lastDelivered, checkQueue,
                 receiverVars, network, history>>

SendMessage ==
  /\ toSend
  /\ toSend' = FALSE
  /\ sent' = sent + 1
  /\ data' = [data EXCEPT ![sent + 1] = @ + 1]
  /\ checkQueue' = Append(checkQueue, [uid |-> sent + 1, numFailed |-> 1])
  /\ UNCHANGED <<linked, lastDelivered, receiverVars, confirms, history>>

(* send() throws: the uid is used up and no CheckTask is queued.            *)
SendFails ==
  /\ toSend
  /\ toSend' = FALSE
  /\ sent' = sent + 1
  /\ failed' = failed \cup {sent + 1}
  /\ UNCHANGED <<linked, lastDelivered, checkQueue, receiverVars, network,
                 accepted, wasted, lostConfirms, unconfirmed, dups>>

-----------------------------------------------------------------------------
(* B's Reciever, case TYPE_MESSAGE.                                         *)

Accept(u) ==
  /\ Arrives(u)
  /\ known
  /\ u = received
  /\ accepted' = Append(accepted, u)
  /\ confirms' = confirms + 1
  /\ received' = received + 1
  /\ UNCHANGED <<senderVars, known, failed, wasted, lostConfirms,
                 unconfirmed, dups>>

(* send() of the confirm throws after the message was printed and put in    *)
(* messageQueue: updateRecv() is skipped.                                   *)
AcceptConfirmFails(u) ==
  /\ Arrives(u)
  /\ known
  /\ u = received
  /\ accepted' = Append(accepted, u)
  /\ unconfirmed' = unconfirmed + 1
  /\ Wasted(u)
  /\ UNCHANGED <<senderVars, receiverVars, confirms, failed, lostConfirms, dups>>

(* A is not in B's list, or the uid is not the expected one.                *)
Ignore(u) ==
  /\ Arrives(u)
  /\ ~known \/ u # received
  /\ IF ~known \/ u > received THEN Wasted(u) ELSE UNCHANGED wasted
  /\ UNCHANGED <<senderVars, receiverVars, confirms, accepted, failed,
                 lostConfirms, unconfirmed, dups>>

(* B's own Checker removes A from B's list.                                 *)
Forget ==
  /\ known
  /\ known' = FALSE
  /\ UNCHANGED <<senderVars, received, network, history>>

-----------------------------------------------------------------------------
(* A's Reciever, case TYPE_CONFIRM: ignored when B is not in the list.      *)
Confirm ==
  /\ confirms > 0
  /\ confirms' = confirms - 1
  /\ IF linked
     THEN lastDelivered' = lastDelivered + 1 /\ UNCHANGED lostConfirms
     ELSE lostConfirms' = lostConfirms + 1 /\ UNCHANGED lastDelivered
  /\ UNCHANGED <<linked, toSend, sent, checkQueue, receiverVars, data,
                 accepted, failed, wasted, unconfirmed, dups>>

-----------------------------------------------------------------------------
(* A's Checker: run() for the task at the head of the queue.  The number of *)
(* failures is tested before the confirms are looked at.                    *)

CheckRemoves ==
  /\ checkQueue # <<>>
  /\ Head(checkQueue).numFailed > MaxFailed
  /\ linked' = FALSE
  /\ checkQueue' = Tail(checkQueue)
  /\ UNCHANGED <<toSend, sent, lastDelivered, receiverVars, network, history>>

CheckResends ==
  /\ checkQueue # <<>>
  /\ Head(checkQueue).numFailed <= MaxFailed
  /\ Head(checkQueue).uid > lastDelivered
  /\ checkQueue' = Append(Tail(checkQueue), Requeued(Head(checkQueue)))
  /\ \/ /\ data' = [data EXCEPT ![Head(checkQueue).uid] = @ + 1]
        /\ IF Quiet THEN UNCHANGED wasted ELSE Wasted(Head(checkQueue).uid)
     \/ /\ Wasted(Head(checkQueue).uid)      \* send() threw
        /\ UNCHANGED data
  /\ UNCHANGED <<linked, toSend, sent, lastDelivered, receiverVars, confirms,
                 accepted, failed, lostConfirms, unconfirmed, dups>>

CheckDone ==
  /\ checkQueue # <<>>
  /\ Head(checkQueue).numFailed <= MaxFailed
  /\ Head(checkQueue).uid <= lastDelivered
  /\ checkQueue' = Tail(checkQueue)
  /\ UNCHANGED <<linked, toSend, sent, lastDelivered, receiverVars, network,
                 history>>

Check == CheckRemoves \/ CheckResends \/ CheckDone

-----------------------------------------------------------------------------
(* The network, and the loss B simulates with failPercent.                  *)

LoseData(u) ==
  /\ Arrives(u)
  /\ Wasted(u)
  /\ UNCHANGED <<senderVars, receiverVars, confirms, accepted, failed,
                 lostConfirms, unconfirmed, dups>>

LoseConfirm ==
  /\ confirms > 0
  /\ confirms' = confirms - 1
  /\ lostConfirms' = lostConfirms + 1
  /\ UNCHANGED <<senderVars, receiverVars, data, accepted, failed, wasted,
                 unconfirmed, dups>>

DuplicateConfirm ==
  /\ confirms > 0
  /\ dups < MaxDups
  /\ confirms' = confirms + 1
  /\ dups' = dups + 1
  /\ UNCHANGED <<senderVars, receiverVars, data, accepted, failed, wasted,
                 lostConfirms, unconfirmed>>

-----------------------------------------------------------------------------
Transit ==
  \/ Confirm \/ LoseConfirm \/ DuplicateConfirm
  \/ \E u \in Uids : Accept(u) \/ AcceptConfirmFails(u) \/ Ignore(u) \/ LoseData(u)

Send == TakeMessage \/ SkipNode \/ SendMessage \/ SendFails

Next == Send \/ Transit \/ Forget \/ Check

Spec == Init /\ [][Next]_vars

(* The Checker thread runs until the program stops: a queued task is        *)
(* eventually checked.  Nothing is assumed of the network.                  *)
FairSpec == Spec /\ WF_vars(Check)

-----------------------------------------------------------------------------
(* Every variable has its type.                                             *)
TypeOK ==
  /\ linked \in BOOLEAN
  /\ toSend \in BOOLEAN
  /\ sent \in 0..MaxSent
  /\ toSend => sent < MaxSent
  /\ lastDelivered \in Nat
  /\ checkQueue \in Seq(Tasks)
  /\ known \in BOOLEAN
  /\ received \in 1..(MaxSent + 1)
  /\ data \in [Uids -> Nat]
  /\ confirms \in Nat
  /\ accepted \in Seq(Uids)
  /\ failed \in SUBSET Uids
  /\ wasted \in [Uids -> Nat]
  /\ lostConfirms \in Nat
  /\ unconfirmed \in Nat
  /\ dups \in 0..MaxDups

(* B accepts 1, 2, 3, ... in order and without a gap.  A number comes twice *)
(* in a row only when the confirm of its first acceptance could not be sent *)
(* (Reciever.java:52-57 relays before it counts).                           *)
OrderedDelivery ==
  /\ \A i \in DOMAIN accepted :
       accepted[i] \in (IF i = 1 THEN {1} ELSE {accepted[i - 1], accepted[i - 1] + 1})
  /\ Len(accepted) = (received - 1) + unconfirmed

(* The anonymous confirms add up: every one stands for one accepted number, *)
(* and is on its way, counted, lost or a duplicate.                         *)
ConfirmBalance ==
  lastDelivered + confirms + lostConfirms = (received - 1) + dups

(* What the sender takes as confirmed ("Message confirmed: uid ...",        *)
(* Reciever.java:66) was accepted, as long as no confirm is duplicated.     *)
ConfirmedWasAccepted ==
  dups = 0 => lastDelivered < received

(* A message is never silently given up: it was accepted, or it still has a *)
(* CheckTask, or the link was removed, or its send() threw.                 *)
NoSilentLoss ==
  dups = 0 =>
    \A u \in 1..sent :
      \/ u < received
      \/ u \in failed
      \/ ~linked
      \/ \E i \in DOMAIN checkQueue : checkQueue[i].uid = u

(* A send() that throws uses up its number: B waits for it forever and      *)
(* accepts nothing that is sent after it.                                   *)
FailedSendStalls == \A u \in failed : received <= u

(* Only numbers that were really sent are in flight or checked, each number *)
(* by one CheckTask at most.                                                *)
OneTaskPerMessage ==
  /\ \A u \in Uids : data[u] > 0 => u \in (1..sent) \ failed
  /\ \A i \in DOMAIN checkQueue : checkQueue[i].uid \in (1..sent) \ failed
  /\ \A i, j \in DOMAIN checkQueue :
       checkQueue[i].uid = checkQueue[j].uid => i = j

(* Retrying ends: with a running Checker every message is accepted, or its  *)
(* send() threw, or the link is removed.                                    *)
EveryMessageIsSettled ==
  \A u \in Uids :
    sent >= u /\ dups = 0 ~> u < received \/ u \in failed \/ ~linked \/ dups > 0

(* A neighbour survives as long as no confirm is lost and fewer than        *)
(* MaxFailed attempts for any one message are of no use: a message          *)
(* overtaken by its successor counts, because B drops what comes early, and *)
(* so does a check that comes while datagrams are still in flight.          *)
SurvivesFewLosses ==
  lostConfirms = 0 /\ (\A u \in Uids : wasted[u] < MaxFailed) => linked
=============================================================================
