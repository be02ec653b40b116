------------------------------ MODULE LinkProofs ------------------------------
(***************************************************************************)
(* Proofs about Link for any number of messages, any retry limit and any   *)
(* number of duplicated confirms.  The inductive invariant IInv joins the  *)
(* properties Link.tla states with three facts they need: B never expects  *)
(* more than the next number A will use, the last number B accepted is the *)
(* one it expects or the one before, and only used numbers have failed.    *)
(***************************************************************************)
EXTENDS Link, SequenceTheorems, TLAPS

ReceivedBound == received <= sent + 1

LastAccepted ==
  accepted # <<>> => accepted[Len(accepted)] \in {received - 1, received}

FailedUsed == failed \subseteq 1..sent

IInv ==
  /\ TypeOK
  /\ FailedUsed
  /\ ReceivedBound
  /\ LastAccepted
  /\ OrderedDelivery
  /\ ConfirmBalance
  /\ FailedSendStalls
  /\ OneTaskPerMessage
  /\ NoSilentLoss

(* TypeOK in two parts: the flags, and the rest.                            *)
Flags ==
  /\ linked \in BOOLEAN
  /\ toSend \in BOOLEAN
  /\ known \in BOOLEAN
  /\ toSend => sent < MaxSent

Numbers ==
  /\ sent \in 0..MaxSent
  /\ lastDelivered \in Nat
  /\ checkQueue \in Seq(Tasks)
  /\ received \in 1..(MaxSent + 1)
  /\ data \in [Uids -> Nat]
  /\ confirms \in Nat
  /\ accepted \in Seq(Uids)
  /\ failed \in SUBSET Uids
  /\ wasted \in [Uids -> Nat]
  /\ lostConfirms \in Nat
  /\ unconfirmed \in Nat
  /\ dups \in 0..MaxDups

Parts ==
  /\ Flags /\ Numbers
  /\ FailedUsed /\ ReceivedBound /\ LastAccepted
  /\ OrderedDelivery /\ ConfirmBalance /\ FailedSendStalls
  /\ OneTaskPerMessage /\ NoSilentLoss

LEMMA IInvParts == Parts <=> IInv
  BY Zenon DEF Parts, IInv, TypeOK, Flags, Numbers

-----------------------------------------------------------------------------
(* Taking the head of a queue shifts the rest by one.                       *)
LEMMA TailElements ==
  ASSUME NEW S, NEW q \in Seq(S), q # <<>>
  PROVE  /\ Tail(q) \in Seq(S)
         /\ Len(Tail(q)) = Len(q) - 1
         /\ \A i \in 1..(Len(q) - 1) : Tail(q)[i] = q[i + 1]
         /\ Head(q) = q[1]
         /\ Head(q) \in S
         /\ Len(q) \in Nat \ {0}
  OBVIOUS

(* Taking the head and queueing an element again keeps the length, shifts   *)
(* the others by one and puts the element last.                             *)
LEMMA RequeueElements ==
  ASSUME NEW S, NEW q \in Seq(S), q # <<>>, NEW e \in S
  PROVE  /\ Append(Tail(q), e) \in Seq(S)
         /\ Len(Append(Tail(q), e)) = Len(q)
         /\ \A i \in 1..(Len(q) - 1) : Append(Tail(q), e)[i] = q[i + 1]
         /\ Append(Tail(q), e)[Len(q)] = e
  BY TailElements

(* A task that is queued again has the same uid and one failure more.       *)
LEMMA RequeuedTask ==
  ASSUME NEW t \in Tasks, t.numFailed <= MaxFailed
  PROVE  Requeued(t) \in Tasks /\ Requeued(t).uid = t.uid
  BY LinkAssumption DEF Requeued, Tasks, LinkAssumption

-----------------------------------------------------------------------------
LEMMA InitIInv == Init => IInv
<1>. SUFFICES ASSUME Init PROVE IInv
  OBVIOUS
<1>. USE LinkAssumption DEF LinkAssumption
<1>1. checkQueue \in Seq(Tasks) /\ accepted \in Seq(Uids)
  BY EmptySeq DEF Init
<1>2. Flags
  BY DEF Init, Flags
<1>3. Numbers
  BY <1>1 DEF Init, Numbers, Uids
<1>4. TypeOK
  BY <1>2, <1>3, Zenon DEF TypeOK, Flags, Numbers
<1>. QED
  BY <1>4 DEF Init, IInv, FailedUsed, ReceivedBound, LastAccepted, OrderedDelivery,
              ConfirmBalance, FailedSendStalls, OneTaskPerMessage, NoSilentLoss

-----------------------------------------------------------------------------
(* Steps that change neither the numbers nor the tasks.                     *)
LEMMA QuietSteps ==
  ASSUME Parts, TakeMessage \/ SkipNode \/ Forget \/ UNCHANGED vars
  PROVE  Parts'
<1>. USE DEF Parts, senderVars, receiverVars, network, history
<1>0. /\ UNCHANGED <<linked, sent, lastDelivered, checkQueue, received>>
      /\ UNCHANGED <<data, confirms, accepted, failed, wasted, lostConfirms,
                     unconfirmed, dups>>
  BY DEF TakeMessage, SkipNode, Forget, vars
<1>1. Flags'
  <2>1. CASE TakeMessage
    BY <2>1, Zenon DEF Flags, TakeMessage
  <2>2. CASE SkipNode
    BY <2>2, Zenon DEF Flags, SkipNode
  <2>3. CASE Forget
    BY <2>3, Zenon DEF Flags, Forget
  <2>4. CASE UNCHANGED vars
    BY <2>4, Zenon DEF Flags, vars
  <2>. QED
    BY <2>1, <2>2, <2>3, <2>4
<1>2. Numbers'
  BY <1>0 DEF Numbers
<1>. QED
  BY <1>0, <1>1, <1>2 DEF FailedUsed, ReceivedBound, LastAccepted, OrderedDelivery,
                    ConfirmBalance, FailedSendStalls, OneTaskPerMessage, NoSilentLoss

(* Sending a message adds its number to the network and to the tasks.       *)
LEMMA SendMessageStep == ASSUME Parts, SendMessage PROVE Parts'
<1>. USE LinkAssumption DEF LinkAssumption, Parts, senderVars, receiverVars, network, history
<1>. DEFINE task == [uid |-> sent + 1, numFailed |-> 1]
<1>0. sent \in Nat /\ received \in Nat /\ sent + 1 \in Uids /\ task \in Tasks
  <2>1. sent < MaxSent
    BY Zenon DEF Flags, SendMessage
  <2>. QED
    BY <2>1 DEF Numbers, Uids, Tasks
<1>1. /\ checkQueue' \in Seq(Tasks)
      /\ Len(checkQueue') = Len(checkQueue) + 1
      /\ \A i \in 1..Len(checkQueue) : checkQueue'[i] = checkQueue[i]
      /\ checkQueue'[Len(checkQueue) + 1].uid = sent + 1
      /\ Len(checkQueue) \in Nat
  BY <1>0 DEF Numbers, SendMessage
<1>2. Flags' /\ Numbers'
  <2>1. Flags'
    BY DEF Flags, SendMessage
  <2>2. Numbers'
    <3>1. sent' \in 0..MaxSent
      BY <1>0 DEF SendMessage, Uids
    <3>2. data' \in [Uids -> Nat]
      BY <1>0 DEF SendMessage, Numbers
    <3>. QED
      BY <1>1, <3>1, <3>2 DEF SendMessage, Numbers
  <2>. QED
    BY <2>1, <2>2
<1>3. /\ FailedUsed' /\ ReceivedBound' /\ LastAccepted' /\ OrderedDelivery'
      /\ ConfirmBalance' /\ FailedSendStalls'
  BY <1>0 DEF SendMessage, FailedUsed, ReceivedBound, LastAccepted, OrderedDelivery,
              ConfirmBalance, FailedSendStalls
<1>4. DOMAIN checkQueue = 1..Len(checkQueue) /\ DOMAIN checkQueue' = 1..(Len(checkQueue) + 1)
  BY <1>1 DEF Numbers
<1>5. OneTaskPerMessage'
  <2>1. sent + 1 \notin failed
    BY <1>0 DEF FailedUsed
  <2>2. \A u \in Uids : data'[u] > 0 => u \in (1..sent') \ failed'
    BY SMTT(30), <1>0, <2>1 DEF SendMessage, Numbers, OneTaskPerMessage, Uids
  <2>3. \A i \in 1..(Len(checkQueue) + 1) : checkQueue'[i].uid \in (1..sent') \ failed'
    <3>. TAKE i \in 1..(Len(checkQueue) + 1)
    <3>1. CASE i = Len(checkQueue) + 1
      BY <1>0, <1>1, <2>1, <3>1 DEF SendMessage
    <3>2. CASE i \in 1..Len(checkQueue)
      <4>1. checkQueue[i].uid \in (1..sent) \ failed
        BY <1>4, <3>2 DEF OneTaskPerMessage
      <4>. QED
        BY <1>0, <1>1, <3>2, <4>1 DEF SendMessage
    <3>. QED
      BY <1>1, <3>1, <3>2
  <2>4. \A i, j \in 1..(Len(checkQueue) + 1) :
          checkQueue'[i].uid = checkQueue'[j].uid => i = j
    <3>1. \A i \in 1..Len(checkQueue) : checkQueue[i].uid # sent + 1
      BY <1>0, <1>4 DEF OneTaskPerMessage
    <3>. QED
      BY <1>1, <1>4, <3>1 DEF OneTaskPerMessage
  <2>. QED
    BY <1>4, <2>2, <2>3, <2>4 DEF OneTaskPerMessage
<1>6. NoSilentLoss'
  <2>. SUFFICES ASSUME dups = 0, NEW u \in 1..(sent + 1), ~(u < received), u \notin failed, linked
                PROVE  \E i \in DOMAIN checkQueue' : checkQueue'[i].uid = u
    BY DEF NoSilentLoss, SendMessage
  <2>1. CASE u = sent + 1
    BY <1>1, <1>4, <2>1
  <2>2. CASE u \in 1..sent
    <3>1. PICK i \in DOMAIN checkQueue : checkQueue[i].uid = u
      BY <2>2 DEF NoSilentLoss
    <3>. QED
      BY <1>1, <1>4, <3>1
  <2>. QED
    BY <1>0, <2>1, <2>2
<1>. QED
  BY <1>2, <1>3, <1>5, <1>6

(* A failed send uses the number up: it is neither in flight nor checked.   *)
LEMMA SendFailsStep == ASSUME Parts, SendFails PROVE Parts'
<1>. USE LinkAssumption DEF LinkAssumption, Parts, senderVars, receiverVars, network, history
<1>0. sent \in Nat /\ received \in Nat /\ sent + 1 \in Uids
  <2>1. sent < MaxSent
    BY Zenon DEF Flags, SendFails
  <2>. QED
    BY <2>1 DEF Numbers, Uids
<1>1. Flags' /\ Numbers'
  <2>1. Flags'
    BY DEF Flags, SendFails
  <2>2. Numbers'
    BY <1>0 DEF Numbers, SendFails, Uids
  <2>. QED
    BY <2>1, <2>2
<1>2. /\ FailedUsed' /\ ReceivedBound' /\ LastAccepted' /\ OrderedDelivery' /\ ConfirmBalance'
  BY <1>0 DEF SendFails, FailedUsed, ReceivedBound, LastAccepted, OrderedDelivery, ConfirmBalance
<1>3. FailedSendStalls'
  BY <1>0 DEF SendFails, FailedSendStalls, ReceivedBound
<1>4. OneTaskPerMessage'
  <2>1. (1..sent) \ failed \subseteq (1..sent') \ failed'
    BY <1>0 DEF SendFails
  <2>. QED
    BY <2>1 DEF SendFails, OneTaskPerMessage
<1>5. NoSilentLoss'
  BY <1>0 DEF SendFails, NoSilentLoss
<1>. QED
  BY <1>1, <1>2, <1>3, <1>4, <1>5

-----------------------------------------------------------------------------
(* Accepting the expected number: it was really sent, so it is not a failed *)
(* one, and the next number keeps the bounds.                               *)
LEMMA AcceptStep ==
  ASSUME Parts, NEW u \in Uids, Accept(u) \/ AcceptConfirmFails(u)
  PROVE  Parts'
<1>. USE LinkAssumption DEF LinkAssumption, Parts, senderVars, receiverVars, network, history
<1>a. /\ u = received /\ data[u] > 0
      /\ data' = [data EXCEPT ![u] = @ - 1]
      /\ accepted' = Append(accepted, u)
      /\ UNCHANGED <<linked, toSend, sent, lastDelivered, checkQueue, known>>
      /\ UNCHANGED <<failed, lostConfirms, dups>>
  BY DEF Accept, AcceptConfirmFails, Arrives
<1>b. \/ /\ confirms' = confirms + 1 /\ received' = received + 1
         /\ UNCHANGED <<wasted, unconfirmed>>
      \/ /\ unconfirmed' = unconfirmed + 1 /\ wasted' = [wasted EXCEPT ![u] = @ + 1]
         /\ UNCHANGED <<confirms, received>>
  BY DEF Accept, AcceptConfirmFails, Wasted
<1>c. /\ received \in Nat /\ confirms \in Nat /\ lastDelivered \in Nat
      /\ lostConfirms \in Nat /\ dups \in Nat
      /\ received' \in {received, received + 1}
  BY <1>b DEF Numbers
<1>d. confirms' \in Nat /\ received' - received = confirms' - confirms
  <2>1. CASE received' = received + 1
    BY <1>b, <1>c, <2>1
  <2>2. CASE received' = received
    BY <1>b, <1>c, <2>2
  <2>. QED
    BY <1>c, <2>1, <2>2
<1>0. /\ u \in (1..sent) \ failed
      /\ received \in Nat /\ sent \in Nat /\ unconfirmed \in Nat
      /\ data' \in [Uids -> Nat]
      /\ \A v \in Uids : data'[v] > 0 => data[v] > 0
  BY <1>a DEF Numbers, OneTaskPerMessage
<1>1. /\ accepted' \in Seq(Uids)
      /\ Len(accepted') = Len(accepted) + 1
      /\ Len(accepted) \in Nat
      /\ \A i \in 1..Len(accepted) : accepted'[i] = accepted[i]
      /\ accepted'[Len(accepted) + 1] = u
      /\ DOMAIN accepted = 1..Len(accepted)
      /\ DOMAIN accepted' = 1..(Len(accepted) + 1)
  BY <1>a DEF Numbers
<1>2. Flags' /\ Numbers'
  <2>1. Flags'
    BY <1>a, Zenon DEF Flags
  <2>2. Numbers'
    <3>1. received' \in 1..(MaxSent + 1)
      BY <1>a, <1>c DEF Uids
    <3>2. wasted' \in [Uids -> Nat]
      BY SMTT(30), <1>b DEF Numbers
    <3>3. confirms' \in Nat /\ unconfirmed' \in Nat
      BY <1>b DEF Numbers
    <3>. QED
      BY <1>a, <1>0, <1>1, <3>1, <3>2, <3>3 DEF Numbers
  <2>. QED
    BY <2>1, <2>2
<1>3. /\ FailedUsed' /\ ReceivedBound' /\ ConfirmBalance' /\ FailedSendStalls'
  <2>1. FailedUsed' /\ ReceivedBound'
    BY <1>a, <1>b, <1>0 DEF FailedUsed, ReceivedBound
  <2>2. ConfirmBalance'
    <3>1. lastDelivered + confirms + lostConfirms = (received - 1) + dups
      BY DEF ConfirmBalance
    <3>2. lastDelivered' = lastDelivered /\ lostConfirms' = lostConfirms /\ dups' = dups
      BY <1>a
    <3>3. lastDelivered' + confirms' + lostConfirms' = (received' - 1) + dups'
      BY <1>c, <1>d, <3>1, <3>2
    <3>. QED
      BY <3>3 DEF ConfirmBalance
  <2>3. FailedSendStalls'
    BY SMTT(30), <1>a, <1>b, <1>0 DEF Numbers, FailedSendStalls, Uids
  <2>. QED
    BY <2>1, <2>2, <2>3
<1>4. accepted' # <<>> /\ accepted'[Len(accepted')] = u /\ LastAccepted'
  BY <1>a, <1>b, <1>0, <1>1 DEF LastAccepted
<1>5. OrderedDelivery'
  <2>1. Len(accepted') = (received' - 1) + unconfirmed'
    BY <1>b, <1>0, <1>1 DEF OrderedDelivery
  <2>2. u \in (IF Len(accepted) = 0 THEN {1}
               ELSE {accepted[Len(accepted)], accepted[Len(accepted)] + 1})
    <3>1. CASE Len(accepted) = 0
      BY <1>a, <1>0, <3>1 DEF OrderedDelivery
    <3>2. CASE Len(accepted) # 0
      <4>1. accepted # <<>>
        BY <3>2
      <4>2. accepted[Len(accepted)] \in {received - 1, received}
        BY <4>1 DEF LastAccepted
      <4>. QED
        BY <1>a, <1>0, <3>2, <4>2
    <3>. QED
      BY <3>1, <3>2
  <2>3. ASSUME NEW i \in 1..(Len(accepted) + 1)
        PROVE  accepted'[i] \in (IF i = 1 THEN {1} ELSE {accepted'[i - 1], accepted'[i - 1] + 1})
    <3>1. CASE i = Len(accepted) + 1
      BY <1>1, <2>2, <3>1
    <3>2. CASE i \in 1..Len(accepted)
      <4>1. accepted[i] \in (IF i = 1 THEN {1} ELSE {accepted[i - 1], accepted[i - 1] + 1})
        BY <1>1, <3>2 DEF OrderedDelivery
      <4>. QED
        BY <1>1, <3>2, <4>1
    <3>. QED
      BY <1>1, <3>1, <3>2
  <2>. QED
    BY <1>1, <2>1, <2>3 DEF OrderedDelivery
<1>6. OneTaskPerMessage'
  BY <1>a, <1>0 DEF OneTaskPerMessage
<1>7. NoSilentLoss'
  BY <1>a, <1>b, <1>0 DEF NoSilentLoss
<1>. QED
  BY <1>2, <1>3, <1>4, <1>5, <1>6, <1>7

(* A message that is ignored or lost only leaves the network.               *)
LEMMA DataGoneStep ==
  ASSUME Parts, NEW u \in Uids, Ignore(u) \/ LoseData(u)
  PROVE  Parts'
<1>. USE DEF Parts, senderVars, receiverVars, network, history
<1>1. /\ data' = [data EXCEPT ![u] = @ - 1] /\ data[u] > 0
      /\ UNCHANGED <<linked, toSend, sent, lastDelivered, checkQueue, known, received>>
      /\ UNCHANGED <<confirms, accepted, failed, lostConfirms, unconfirmed, dups>>
  BY DEF Ignore, LoseData, Arrives
<1>2. wasted' = wasted \/ wasted' = [wasted EXCEPT ![u] = @ + 1]
  BY DEF Ignore, LoseData, Wasted
<1>3. data' \in [Uids -> Nat] /\ \A v \in Uids : data'[v] > 0 => data[v] > 0
  BY <1>1 DEF Numbers
<1>4. wasted' \in [Uids -> Nat]
  <2>1. wasted \in [Uids -> Nat]
    BY DEF Numbers
  <2>. QED
    BY <1>2, <2>1
<1>5. Flags'
  BY <1>1, Zenon DEF Flags
<1>6. Numbers'
  BY <1>1, <1>3, <1>4 DEF Numbers
<1>7. OneTaskPerMessage'
  BY <1>1, <1>3 DEF OneTaskPerMessage
<1>. QED
  BY <1>1, <1>5, <1>6, <1>7 DEF FailedUsed, ReceivedBound, LastAccepted, OrderedDelivery,
     ConfirmBalance, FailedSendStalls, NoSilentLoss

(* A confirm is counted, lost or duplicated: the balance moves with it.     *)
LEMMA ConfirmStep ==
  ASSUME Parts, Confirm \/ LoseConfirm \/ DuplicateConfirm
  PROVE  Parts'
<1>. USE LinkAssumption DEF LinkAssumption, Parts, senderVars, receiverVars, network, history
<1>1. /\ UNCHANGED <<linked, toSend, sent, checkQueue, known, received>>
      /\ UNCHANGED <<data, accepted, failed, wasted, unconfirmed>>
  BY DEF Confirm, LoseConfirm, DuplicateConfirm
<1>2. /\ lastDelivered' \in Nat /\ confirms' \in Nat /\ lostConfirms' \in Nat
      /\ dups' \in 0..MaxDups /\ dups' >= dups
      /\ lastDelivered' + confirms' + lostConfirms' + dups
           = lastDelivered + confirms + lostConfirms + dups'
  <2>1. /\ lastDelivered \in Nat /\ confirms \in Nat /\ lostConfirms \in Nat
        /\ dups \in 0..MaxDups
    BY DEF Numbers
  <2>2. CASE Confirm
    <3>1. CASE linked
      BY <2>1, <2>2, <3>1 DEF Confirm
    <3>2. CASE ~linked
      BY <2>1, <2>2, <3>2 DEF Confirm
    <3>. QED
      BY <3>1, <3>2
  <2>3. CASE LoseConfirm
    BY <2>1, <2>3 DEF LoseConfirm
  <2>4. CASE DuplicateConfirm
    BY <2>1, <2>4 DEF DuplicateConfirm
  <2>. QED
    BY <2>2, <2>3, <2>4
<1>3. Flags'
  BY <1>1, Zenon DEF Flags
<1>4. Numbers'
  BY <1>1, <1>2 DEF Numbers
<1>5. ConfirmBalance'
  <2>1. /\ lastDelivered \in Nat /\ confirms \in Nat /\ lostConfirms \in Nat
        /\ dups \in Nat /\ received \in Nat /\ received' = received
    BY <1>1 DEF Numbers
  <2>. QED
    <3>1. lastDelivered + confirms + lostConfirms = (received - 1) + dups
      BY DEF ConfirmBalance
    <3>2. lastDelivered' + confirms' + lostConfirms' = (received' - 1) + dups'
      <4>1. dups' \in Nat
        BY <1>2
      <4>. QED
        BY <1>2, <2>1, <3>1, <4>1
    <3>. QED
      BY <3>2 DEF ConfirmBalance
<1>6. NoSilentLoss'
  <2>1. dups' = 0 => dups = 0
    BY <1>2 DEF Numbers
  <2>. QED
    BY <1>1, <2>1 DEF NoSilentLoss
<1>. QED
  BY <1>1, <1>3, <1>4, <1>5, <1>6 DEF FailedUsed, ReceivedBound, LastAccepted,
     OrderedDelivery, FailedSendStalls, OneTaskPerMessage

-----------------------------------------------------------------------------
(* The Checker takes the first task away for good.  Its message is not lost *)
(* by that: either the link is removed in the same step, or the confirms    *)
(* cover its number, and then B has accepted it.                            *)
LEMMA TaskGoneStep ==
  ASSUME Parts, CheckRemoves \/ CheckDone
  PROVE  Parts'
<1>. USE LinkAssumption DEF LinkAssumption, Parts, senderVars, receiverVars, network, history
<1>. DEFINE n == Len(checkQueue)
<1>1. /\ checkQueue # <<>> /\ checkQueue' = Tail(checkQueue)
      /\ UNCHANGED <<toSend, sent, lastDelivered, known, received>>
      /\ UNCHANGED <<data, confirms, accepted, failed, wasted, lostConfirms, unconfirmed, dups>>
  BY DEF CheckRemoves, CheckDone
<1>2. checkQueue \in Seq(Tasks)
  BY DEF Numbers
<1>3. /\ n \in Nat \ {0} /\ checkQueue' \in Seq(Tasks)
      /\ Len(checkQueue') = n - 1
      /\ \A i \in 1..(n - 1) : checkQueue'[i] = checkQueue[i + 1]
      /\ Head(checkQueue) = checkQueue[1]
      /\ DOMAIN checkQueue = 1..n
      /\ DOMAIN checkQueue' = 1..(n - 1)
  BY <1>1, <1>2, TailElements
<1>. HIDE DEF n
<1>4. Flags'
  <2>1. linked' \in BOOLEAN
    BY Zenon DEF Flags, CheckRemoves, CheckDone
  <2>. QED
    BY <1>1, <2>1, Zenon DEF Flags
<1>5. Numbers'
  BY <1>1, <1>3 DEF Numbers
<1>6. OneTaskPerMessage'
  <2>1. \A i \in 1..(n - 1) : i + 1 \in 1..n
    BY <1>3
  <2>2. \A i \in DOMAIN checkQueue' : checkQueue'[i].uid \in (1..sent) \ failed
    BY <1>3, <2>1 DEF OneTaskPerMessage
  <2>3. \A i, j \in DOMAIN checkQueue' : checkQueue'[i].uid = checkQueue'[j].uid => i = j
    <3>1. \A i, j \in 1..n : checkQueue[i].uid = checkQueue[j].uid => i = j
      BY <1>3 DEF OneTaskPerMessage
    <3>. SUFFICES ASSUME NEW i \in 1..(n - 1), NEW j \in 1..(n - 1),
                         checkQueue'[i].uid = checkQueue'[j].uid
                  PROVE  i = j
      BY <1>3
    <3>2. checkQueue[i + 1].uid = checkQueue[j + 1].uid
      BY <1>3
    <3>3. i + 1 \in 1..n /\ j + 1 \in 1..n
      BY <2>1
    <3>4. i + 1 = j + 1
      BY <3>1, <3>2, <3>3
    <3>. QED
      BY <1>3, <3>4
  <2>. QED
    BY <1>1, <2>2, <2>3 DEF OneTaskPerMessage
<1>7. NoSilentLoss'
  <2>1. CASE CheckRemoves
    BY <2>1 DEF CheckRemoves, NoSilentLoss
  <2>2. CASE CheckDone
    <3>. SUFFICES ASSUME dups = 0, NEW u \in 1..sent, ~(u < received), u \notin failed, linked
                  PROVE  \E i \in DOMAIN checkQueue' : checkQueue'[i].uid = u
      BY <1>1, <2>2 DEF NoSilentLoss, CheckDone
    <3>1. PICK i \in 1..n : checkQueue[i].uid = u
      BY <1>3 DEF NoSilentLoss
    <3>2. lastDelivered < received
      BY DEF Numbers, ConfirmBalance
    <3>3. checkQueue[1].uid <= lastDelivered
      BY <1>3, <2>2 DEF CheckDone
    <3>4. i # 1
      BY <3>1, <3>2, <3>3 DEF Numbers
    <3>5. i - 1 \in 1..(n - 1) /\ checkQueue'[i - 1] = checkQueue[i]
      BY <1>3, <3>4
    <3>. QED
      BY <1>3, <3>1, <3>5
  <2>. QED
    BY <2>1, <2>2
<1>. QED
  BY <1>1, <1>4, <1>5, <1>6, <1>7 DEF FailedUsed, ReceivedBound, LastAccepted,
     OrderedDelivery, ConfirmBalance, FailedSendStalls

(* The Checker moves the first task to the end: the tasks are the same.     *)
LEMMA CheckResendsStep == ASSUME Parts, CheckResends PROVE Parts'
<1>. USE LinkAssumption DEF LinkAssumption, Parts, senderVars, receiverVars, network, history
<1>. DEFINE n == Len(checkQueue)
            t == Head(checkQueue)
<1>1. /\ checkQueue # <<>> /\ checkQueue' = Append(Tail(checkQueue), Requeued(t))
      /\ t.numFailed <= MaxFailed
      /\ UNCHANGED <<linked, toSend, sent, lastDelivered, known, received>>
      /\ UNCHANGED <<confirms, accepted, failed, lostConfirms, unconfirmed, dups>>
  BY DEF CheckResends
<1>2. checkQueue \in Seq(Tasks) /\ n \in Nat \ {0} /\ t = checkQueue[1] /\ t \in Tasks
  BY <1>1, TailElements DEF Numbers
<1>3. Requeued(t) \in Tasks /\ Requeued(t).uid = t.uid
  BY <1>1, <1>2, RequeuedTask
<1>4. /\ checkQueue' \in Seq(Tasks)
      /\ Len(checkQueue') = n
      /\ \A i \in 1..(n - 1) : checkQueue'[i] = checkQueue[i + 1]
      /\ checkQueue'[n].uid = checkQueue[1].uid
      /\ DOMAIN checkQueue = 1..n
      /\ DOMAIN checkQueue' = 1..n
  BY <1>1, <1>2, <1>3, RequeueElements
<1>. DEFINE from(i) == IF i = n THEN 1 ELSE i + 1
<1>5. /\ \A i \in 1..n : from(i) \in 1..n /\ checkQueue'[i].uid = checkQueue[from(i)].uid
      /\ \A i, j \in 1..n : from(i) = from(j) => i = j
      /\ \A j \in 1..n : \E i \in 1..n : from(i) = j
  <2>. HIDE DEF n, t
  <2>1. ASSUME NEW i \in 1..n
        PROVE  from(i) \in 1..n /\ checkQueue'[i].uid = checkQueue[from(i)].uid
    <3>1. CASE i = n
      BY <1>2, <1>4, <3>1
    <3>2. CASE i \in 1..(n - 1)
      BY <1>2, <1>4, <3>2
    <3>. QED
      BY <1>2, <3>1, <3>2
  <2>2. \A i, j \in 1..n : from(i) = from(j) => i = j
    BY <1>2
  <2>3. ASSUME NEW j \in 1..n PROVE \E i \in 1..n : from(i) = j
    <3>1. CASE j = 1
      BY <1>2, <3>1
    <3>2. CASE j # 1
      <4>1. j - 1 \in 1..n /\ from(j - 1) = j
        BY <1>2, <3>2
      <4>. QED
        BY <4>1
    <3>. QED
      BY <3>1, <3>2
  <2>. QED
    BY <2>1, <2>2, <2>3
<1>. HIDE DEF n, from
<1>6. t.uid \in Uids /\ t.uid \in (1..sent) \ failed
  <2>1. 1 \in DOMAIN checkQueue
    BY <1>2, <1>4
  <2>. QED
    BY <1>2, <2>1 DEF OneTaskPerMessage, Tasks
<1>. HIDE DEF t
<1>7. Flags'
  BY <1>1, Zenon DEF Flags
<1>8. /\ data' \in [Uids -> Nat] /\ wasted' \in [Uids -> Nat]
      /\ \A u \in Uids : data'[u] > 0 => data[u] > 0 \/ u = t.uid
  <2>1. data \in [Uids -> Nat] /\ wasted \in [Uids -> Nat]
    BY DEF Numbers
  <2>2. CASE data' = [data EXCEPT ![t.uid] = @ + 1] /\ wasted' = wasted
    BY <1>6, <2>1, <2>2
  <2>3. CASE data' = data /\ wasted' = [wasted EXCEPT ![t.uid] = @ + 1]
    BY <1>6, <2>1, <2>3
  <2>4. CASE data' = [data EXCEPT ![t.uid] = @ + 1]
             /\ wasted' = [wasted EXCEPT ![t.uid] = @ + 1]
    BY <1>6, <2>1, <2>4
  <2>. QED
    BY <2>2, <2>3, <2>4 DEF CheckResends, Wasted, t
<1>9. Numbers'
  BY <1>1, <1>4, <1>8 DEF Numbers
<1>10. OneTaskPerMessage'
  <2>1. \A u \in Uids : data'[u] > 0 => u \in (1..sent) \ failed
    BY <1>6, <1>8 DEF OneTaskPerMessage
  <2>2. /\ \A k \in 1..n : checkQueue[k].uid \in (1..sent) \ failed
        /\ \A k, l \in 1..n : checkQueue[k].uid = checkQueue[l].uid => k = l
    BY <1>4 DEF OneTaskPerMessage
  <2>3. ASSUME NEW i \in 1..n PROVE checkQueue'[i].uid \in (1..sent) \ failed
    <3>1. from(i) \in 1..n /\ checkQueue'[i].uid = checkQueue[from(i)].uid
      BY <1>5
    <3>2. checkQueue[from(i)].uid \in (1..sent) \ failed
      BY <2>2, <3>1, Zenon
    <3>. QED
      BY <3>1, <3>2, Zenon
  <2>4. ASSUME NEW i \in 1..n, NEW j \in 1..n,
               checkQueue'[i].uid = checkQueue'[j].uid
        PROVE  i = j
    <3>1. /\ from(i) \in 1..n /\ checkQueue'[i].uid = checkQueue[from(i)].uid
          /\ from(j) \in 1..n /\ checkQueue'[j].uid = checkQueue[from(j)].uid
      BY <1>5
    <3>2. checkQueue[from(i)].uid = checkQueue[from(j)].uid
      BY <2>4, <3>1, Zenon
    <3>3. from(i) = from(j)
      BY <2>2, <3>1, <3>2, Zenon
    <3>. QED
      BY <1>5, <3>3, Zenon
  <2>. QED
    BY <1>1, <1>4, <2>1, <2>3, <2>4 DEF OneTaskPerMessage
<1>11. NoSilentLoss'
  <2>. SUFFICES ASSUME dups = 0, NEW u \in 1..sent, ~(u < received), u \notin failed, linked
                PROVE  \E i \in DOMAIN checkQueue' : checkQueue'[i].uid = u
    BY <1>1 DEF NoSilentLoss
  <2>1. PICK j \in 1..n : checkQueue[j].uid = u
    BY <1>4 DEF NoSilentLoss
  <2>2. PICK i \in 1..n : from(i) = j
    BY <1>5
  <2>. QED
    BY <1>4, <1>5, <2>1, <2>2
<1>. QED
  BY <1>1, <1>7, <1>9, <1>10, <1>11 DEF FailedUsed, ReceivedBound, LastAccepted,
     OrderedDelivery, ConfirmBalance, FailedSendStalls

-----------------------------------------------------------------------------
LEMMA StepIInv == IInv /\ [Next]_vars => IInv'
<1>. SUFFICES ASSUME IInv, [Next]_vars PROVE IInv'
  OBVIOUS
<1>1. Parts
  BY IInvParts
<1>2. Parts'
  <2>1. CASE TakeMessage \/ SkipNode \/ Forget \/ UNCHANGED vars
    BY <1>1, <2>1, QuietSteps
  <2>2. CASE SendMessage
    BY <1>1, <2>2, SendMessageStep
  <2>3. CASE SendFails
    BY <1>1, <2>3, SendFailsStep
  <2>4. ASSUME NEW u \in Uids, Accept(u) \/ AcceptConfirmFails(u) PROVE Parts'
    BY <1>1, <2>4, AcceptStep
  <2>5. ASSUME NEW u \in Uids, Ignore(u) \/ LoseData(u) PROVE Parts'
    BY <1>1, <2>5, DataGoneStep
  <2>6. CASE Confirm \/ LoseConfirm \/ DuplicateConfirm
    BY <1>1, <2>6, ConfirmStep
  <2>7. CASE CheckRemoves \/ CheckDone
    BY <1>1, <2>7, TaskGoneStep
  <2>8. CASE CheckResends
    BY <1>1, <2>8, CheckResendsStep
  <2>. QED
    BY <2>1, <2>2, <2>3, <2>4, <2>5, <2>6, <2>7, <2>8 DEF Next, Send, Transit, Check
<1>. QED
  BY <1>2, Zenon DEF Parts, IInv, TypeOK, Flags, Numbers

(* The inductive invariant holds in every reachable state.                  *)
THEOREM Invariance == Spec => []IInv
  BY InitIInv, StepIInv, PTL DEF Spec

(* The type invariant.                                                      *)
THEOREM TypeCorrect == Spec => []TypeOK
<1>1. IInv => TypeOK
  BY DEF IInv
<1>. QED
  BY <1>1, Invariance, PTL

(* The receiver accepts the numbers in order and without a gap; a number    *)
(* comes twice only after a confirm that could not be sent.                 *)
THEOREM InOrderWithoutGaps == Spec => []OrderedDelivery
<1>1. IInv => OrderedDelivery
  BY DEF IInv
<1>. QED
  BY <1>1, Invariance, PTL

(* Every confirm stands for one accepted number and is accounted for.       *)
THEOREM ConfirmsBalance == Spec => []ConfirmBalance
<1>1. IInv => ConfirmBalance
  BY DEF IInv
<1>. QED
  BY <1>1, Invariance, PTL

(* Without duplicated confirms the count of the confirms never covers a     *)
(* number that was not accepted.                                            *)
THEOREM ConfirmsAreSound == Spec => []ConfirmedWasAccepted
<1>1. IInv => ConfirmedWasAccepted
  <2>. SUFFICES ASSUME Parts, dups = 0 PROVE lastDelivered < received
    BY IInvParts DEF ConfirmedWasAccepted
  <2>. QED
    BY DEF Parts, Numbers, ConfirmBalance
<1>. QED
  BY <1>1, Invariance, PTL

(* Without duplicated confirms a sent message is never silently given up.   *)
THEOREM NothingIsSilentlyLost == Spec => []NoSilentLoss
<1>1. IInv => NoSilentLoss
  BY DEF IInv
<1>. QED
  BY <1>1, Invariance, PTL

(* A number whose send() threw is never accepted, nor any number after it.  *)
THEOREM FailedSendStallsLink == Spec => []FailedSendStalls
<1>1. IInv => FailedSendStalls
  BY DEF IInv
<1>. QED
  BY <1>1, Invariance, PTL

(* A number is checked by one task at most, and only if it was sent.        *)
THEOREM TasksAreUnique == Spec => []OneTaskPerMessage
<1>1. IInv => OneTaskPerMessage
  BY DEF IInv
<1>. QED
  BY <1>1, Invariance, PTL

-----------------------------------------------------------------------------
(* What the number of failures of a task counts: attempts that were of no   *)
(* use, the copies still in flight as long as B waits for the message, and  *)
(* at most one that B accepted.                                             *)
Tried(t, w, d, r) ==
  /\ t.numFailed <= w[t.uid] + 1
  /\ t.uid >= r => t.numFailed <= w[t.uid] + d[t.uid]

Attempts ==
  lostConfirms = 0 => \A i \in DOMAIN checkQueue : Tried(checkQueue[i], wasted, data, received)

LEMMA TaskIsTyped ==
  ASSUME Parts, NEW i \in DOMAIN checkQueue
  PROVE  /\ checkQueue[i] \in Tasks /\ checkQueue[i].uid \in Uids /\ checkQueue[i].numFailed \in Nat
         /\ wasted[checkQueue[i].uid] \in Nat /\ data[checkQueue[i].uid] \in Nat
         /\ received \in Nat /\ lostConfirms \in Nat
<1>1. checkQueue[i] \in Tasks
  BY DEF Parts, Numbers
<1>2. checkQueue[i].uid \in Uids /\ checkQueue[i].numFailed \in Nat
  BY <1>1, LinkAssumption DEF Tasks, LinkAssumption
<1>. QED
  BY <1>1, <1>2 DEF Parts, Numbers

(* More attempts counted, more copies in flight: the bound still holds.     *)
LEMMA TriedGrows ==
  ASSUME NEW t \in Tasks, NEW w \in [Uids -> Nat], NEW w2 \in [Uids -> Nat],
         NEW d \in [Uids -> Nat], NEW d2 \in [Uids -> Nat], NEW r \in Nat, Tried(t, w, d, r),
         \A v \in Uids : w2[v] >= w[v] /\ d2[v] >= d[v]
  PROVE  Tried(t, w2, d2, r)
<1>1. PICK u \in Uids, n \in Nat : u = t.uid /\ n = t.numFailed
  BY LinkAssumption DEF Tasks, LinkAssumption
<1>2. u \in Nat /\ w[u] \in Nat /\ w2[u] \in Nat /\ d[u] \in Nat /\ d2[u] \in Nat
  BY LinkAssumption DEF Uids, LinkAssumption
<1>3. w2[u] >= w[u] /\ d2[u] >= d[u]
  OBVIOUS
<1>4. n <= w[u] + 1 /\ (u >= r => n <= w[u] + d[u])
  BY <1>1 DEF Tried
<1>5. n <= w2[u] + 1 /\ (u >= r => n <= w2[u] + d2[u])
  BY <1>2, <1>3, <1>4
<1>. QED
  BY <1>1, <1>5 DEF Tried

(* One copy or one attempt more.                                            *)
LEMMA CountGrows ==
  ASSUME NEW f \in [Uids -> Nat], NEW u \in Uids
  PROVE  /\ [f EXCEPT ![u] = @ + 1] \in [Uids -> Nat]
         /\ [f EXCEPT ![u] = @ + 1][u] = f[u] + 1
         /\ \A v \in Uids : [f EXCEPT ![u] = @ + 1][v] >= f[v]
<1>1. \A v \in Uids : f[v] \in Nat
  OBVIOUS
<1>2. ASSUME NEW v \in Uids PROVE [f EXCEPT ![u] = @ + 1][v] >= f[v]
  <2>1. [f EXCEPT ![u] = @ + 1][v] = IF v = u THEN f[v] + 1 ELSE f[v]
    OBVIOUS
  <2>. QED
    BY <1>1, <2>1
<1>. QED
  BY <1>1, <1>2

(* A copy that is gone was of no use, or B has accepted the message.        *)
LEMMA ArrivalCounts ==
  ASSUME Parts, Attempts, NEW u \in Uids,
         Accept(u) \/ AcceptConfirmFails(u) \/ Ignore(u) \/ LoseData(u)
  PROVE  Attempts'
<1>1. /\ data' = [data EXCEPT ![u] = @ - 1] /\ data[u] > 0
      /\ UNCHANGED <<checkQueue, lostConfirms>>
  BY DEF Accept, AcceptConfirmFails, Ignore, LoseData, Arrives, senderVars
<1>2. \/ wasted' = [wasted EXCEPT ![u] = @ + 1] /\ received' = received
      \/ wasted' = wasted /\ received' = received /\ u < received
      \/ wasted' = wasted /\ received' = received + 1 /\ u = received
  <2>1. u \in Nat /\ received \in Nat
    BY LinkAssumption DEF Parts, Numbers, Uids, LinkAssumption
  <2>. QED
    BY <2>1 DEF Accept, AcceptConfirmFails, Ignore, LoseData, Wasted, receiverVars
<1>3. ASSUME NEW i \in DOMAIN checkQueue, Tried(checkQueue[i], wasted, data, received)
      PROVE  Tried(checkQueue[i], wasted', data', received')
  <2>1. PICK t \in Tasks : t = checkQueue[i] /\ t.uid \in Uids /\ t.numFailed \in Nat
    BY TaskIsTyped
  <2>2. data \in [Uids -> Nat] /\ wasted \in [Uids -> Nat] /\ received \in Nat /\ u \in Nat /\ t.uid \in Nat
    BY <2>1, LinkAssumption DEF Parts, Numbers, Uids, LinkAssumption
  <2>3. CASE t.uid = u
    <3>1. data'[u] = data[u] - 1
      BY <1>1, <2>2
    <3>2. wasted'[u] = wasted[u] + 1 \/ wasted'[u] = wasted[u]
      BY <1>2, <2>2
    <3>3. u >= received' => wasted'[u] = wasted[u] + 1 /\ received' = received
      BY <1>2, <2>2
    <3>. QED
      BY <1>3, <2>1, <2>2, <2>3, <3>1, <3>2, <3>3 DEF Tried
  <2>4. CASE t.uid # u
    <3>1. data'[t.uid] = data[t.uid] /\ wasted'[t.uid] = wasted[t.uid]
      BY <1>1, <1>2, <2>1, <2>2, <2>4
    <3>2. t.uid >= received' => t.uid >= received
      BY <1>2, <2>2
    <3>. QED
      BY <1>3, <2>1, <3>1, <3>2 DEF Tried
  <2>. QED
    BY <2>3, <2>4
<1>. QED
  BY <1>1, <1>3 DEF Attempts

(* A message is resent in vain while something is under way, and otherwise  *)
(* only while B waits for it: all confirms have been counted by then.       *)
LEMMA ResendCounts ==
  ASSUME Parts, Attempts, CheckResends
  PROVE  Attempts'
<1>1. PICK t \in Tasks :
        /\ t = Head(checkQueue) /\ checkQueue # <<>> /\ t.numFailed <= MaxFailed /\ t.uid > lastDelivered
        /\ checkQueue' = Append(Tail(checkQueue), Requeued(t))
        /\ UNCHANGED <<lostConfirms, received>>
  BY TailElements DEF CheckResends, Parts, Numbers, receiverVars
<1>2. PICK u \in Uids : u = t.uid /\ u \in Nat /\ t.numFailed \in Nat
  BY LinkAssumption DEF Tasks, Uids, LinkAssumption
<1>3. data \in [Uids -> Nat] /\ wasted \in [Uids -> Nat] /\ received \in Nat
  BY DEF Parts, Numbers
<1>4. \/ data' = [data EXCEPT ![u] = @ + 1] /\ Quiet /\ wasted' = wasted
      \/ data' = [data EXCEPT ![u] = @ + 1] /\ wasted' = [wasted EXCEPT ![u] = @ + 1]
      \/ data' = data /\ wasted' = [wasted EXCEPT ![u] = @ + 1]
  BY <1>1, <1>2 DEF CheckResends, Wasted
<1>5. /\ data' \in [Uids -> Nat] /\ wasted' \in [Uids -> Nat]
      /\ \A v \in Uids : wasted'[v] >= wasted[v] /\ data'[v] >= data[v]
  <2>1. \A v \in Uids : data[v] >= data[v] /\ wasted[v] >= wasted[v]
    BY <1>3
  <2>2. PICK d1 : d1 = [data EXCEPT ![u] = @ + 1]
    OBVIOUS
  <2>3. PICK w1 : w1 = [wasted EXCEPT ![u] = @ + 1]
    OBVIOUS
  <2>4. /\ d1 \in [Uids -> Nat] /\ \A v \in Uids : d1[v] >= data[v]
        /\ w1 \in [Uids -> Nat] /\ \A v \in Uids : w1[v] >= wasted[v]
    BY <1>2, <1>3, <2>2, <2>3, CountGrows
  <2>5. data' \in {data, d1} /\ wasted' \in {wasted, w1}
    BY <1>4, <2>2, <2>3
  <2>. QED
    BY <1>3, <2>1, <2>4, <2>5
<1>. SUFFICES ASSUME lostConfirms = 0, NEW k \in DOMAIN checkQueue'
              PROVE  Tried(checkQueue'[k], wasted', data', received')
  BY <1>1 DEF Attempts
<1>6. \A j \in DOMAIN checkQueue : Tried(checkQueue[j], wasted, data, received)
  BY <1>1 DEF Attempts
<1>7. /\ Len(checkQueue) \in Nat \ {0} /\ DOMAIN checkQueue = 1..Len(checkQueue) /\ t = checkQueue[1]
      /\ DOMAIN checkQueue' = 1..Len(checkQueue)
      /\ \A j \in 1..(Len(checkQueue) - 1) : checkQueue'[j] = checkQueue[j + 1]
      /\ checkQueue'[Len(checkQueue)] = Requeued(t)
  <2>1. checkQueue \in Seq(Tasks) /\ Requeued(t) \in Tasks
    BY <1>1, RequeuedTask DEF Parts, Numbers
  <2>. QED
    BY <1>1, <2>1, TailElements, RequeueElements
<1>8. CASE k # Len(checkQueue)
  <2>1. PICK j \in DOMAIN checkQueue : checkQueue'[k] = checkQueue[j]
    BY <1>7, <1>8
  <2>2. checkQueue[j] \in Tasks /\ Tried(checkQueue[j], wasted, data, received)
    BY <1>6, TaskIsTyped
  <2>3. Tried(checkQueue[j], wasted', data', received)
    BY <1>3, <1>5, <2>2, TriedGrows
  <2>. QED
    BY <1>1, <2>1, <2>3
<1>9. CASE k = Len(checkQueue)
  <2>1. Tried(t, wasted, data, received)
    BY <1>6, <1>7
  <2>2. checkQueue'[k].uid = u /\ checkQueue'[k].numFailed = t.numFailed + 1
    BY <1>2, <1>7, <1>9 DEF Requeued, Tasks
  <2>3. PICK n \in Nat : n = t.numFailed
    BY <1>2
  <2>4. /\ wasted[u] \in Nat /\ data[u] \in Nat /\ wasted'[u] \in Nat /\ data'[u] \in Nat
        /\ data'[u] >= data[u] /\ wasted'[u] >= wasted[u]
    BY <1>3, <1>5
  <2>5. n <= wasted[u] + 1 /\ (u >= received => n <= wasted[u] + data[u])
    BY <1>2, <2>1, <2>3 DEF Tried
  <2>6. n + 1 <= wasted'[u] + 1 /\ (u >= received => n + 1 <= wasted'[u] + data'[u])
    <3>1. CASE wasted' = [wasted EXCEPT ![u] = @ + 1]
      <4>1. wasted'[u] = wasted[u] + 1
        BY <1>3, <3>1
      <4>. QED
        BY <2>4, <2>5, <4>1
    <3>2. CASE data' = [data EXCEPT ![u] = @ + 1] /\ Quiet /\ wasted' = wasted
      <4>1. data[u] = 0 /\ data'[u] = 1 /\ confirms = 0 /\ wasted'[u] = wasted[u]
        BY <1>3, <3>2 DEF Quiet
      <4>2. u >= received
        <5>1. lastDelivered \in Nat /\ dups \in Nat /\ u > lastDelivered /\ received \in Nat
          BY <1>1, <1>2, <1>3 DEF Parts, Numbers
        <5>2. lastDelivered + confirms + lostConfirms = (received - 1) + dups
          BY DEF Parts, ConfirmBalance
        <5>. QED
          BY <1>2, <4>1, <5>1, <5>2
      <4>. QED
        BY <2>3, <2>4, <2>5, <4>1, <4>2
    <3>. QED
      BY <1>4, <3>1, <3>2
  <2>. QED
    BY <1>1, <2>2, <2>3, <2>6 DEF Tried
<1>. QED
  BY <1>7, <1>8, <1>9

LEMMA AttemptsNext ==
  ASSUME Parts, Attempts, [Next]_vars
  PROVE  Attempts'
<1>1. CASE TakeMessage \/ SkipNode \/ SendFails \/ Forget \/ DuplicateConfirm \/ UNCHANGED vars
  <2>1. UNCHANGED <<checkQueue, wasted, data, received, lostConfirms>>
    BY <1>1 DEF TakeMessage, SkipNode, SendFails, Forget, DuplicateConfirm, vars, senderVars,
       receiverVars, network, history
  <2>. QED
    BY <2>1 DEF Attempts
<1>2. CASE Confirm \/ LoseConfirm
  <2>1. UNCHANGED <<checkQueue, wasted, data, received>> /\ (lostConfirms' = 0 => lostConfirms = 0)
    BY <1>2 DEF Confirm, LoseConfirm, senderVars, receiverVars, Parts, Numbers
  <2>. QED
    BY <2>1 DEF Attempts
<1>3. CASE SendMessage
  <2>1. PICK u \in Uids, t \in Tasks :
          /\ u = sent + 1 /\ t = [uid |-> u, numFailed |-> 1]
          /\ data' = [data EXCEPT ![u] = @ + 1]
          /\ checkQueue' = Append(checkQueue, t)
          /\ UNCHANGED <<wasted, received, lostConfirms>>
    <3>1. sent + 1 \in Uids /\ 1 \in 1..(MaxFailed + 1)
      BY <1>3, LinkAssumption DEF SendMessage, Parts, Flags, Numbers, Uids, LinkAssumption
    <3>. QED
      BY <1>3, <3>1 DEF SendMessage, Tasks, receiverVars, history
  <2>2. data \in [Uids -> Nat] /\ wasted \in [Uids -> Nat] /\ received \in Nat /\ checkQueue \in Seq(Tasks)
    BY DEF Parts, Numbers
  <2>3. Tried(t, wasted', data', received')
    BY <2>1, <2>2 DEF Tried
  <2>4. ASSUME NEW j \in DOMAIN checkQueue, Tried(checkQueue[j], wasted, data, received)
        PROVE  Tried(checkQueue[j], wasted', data', received')
    <3>1. checkQueue[j] \in Tasks
      BY TaskIsTyped
    <3>2. data' \in [Uids -> Nat] /\ \A v \in Uids : data'[v] >= data[v]
      BY <2>1, <2>2, CountGrows
    <3>3. \A v \in Uids : wasted[v] >= wasted[v]
      BY <2>2
    <3>4. Tried(checkQueue[j], wasted, data', received)
      BY <2>2, <2>4, <3>1, <3>2, <3>3, TriedGrows
    <3>. QED
      BY <2>1, <3>4
  <2>5. \A k \in DOMAIN checkQueue' : checkQueue'[k] = t \/ \E j \in DOMAIN checkQueue : checkQueue'[k] = checkQueue[j]
    BY <2>1, <2>2
  <2>. QED
    BY <2>1, <2>3, <2>4, <2>5 DEF Attempts
<1>4. CASE \E u \in Uids : Accept(u) \/ AcceptConfirmFails(u) \/ Ignore(u) \/ LoseData(u)
  BY <1>4, ArrivalCounts
<1>5. CASE CheckRemoves \/ CheckDone
  <2>1. /\ checkQueue # <<>> /\ checkQueue' = Tail(checkQueue)
        /\ UNCHANGED <<wasted, data, received, lostConfirms>>
    BY <1>5 DEF CheckRemoves, CheckDone, receiverVars, network, history
  <2>2. \A k \in DOMAIN checkQueue' : \E j \in DOMAIN checkQueue : checkQueue'[k] = checkQueue[j]
    <3>1. /\ DOMAIN checkQueue = 1..Len(checkQueue) /\ DOMAIN checkQueue' = 1..(Len(checkQueue) - 1)
          /\ \A k \in 1..(Len(checkQueue) - 1) : checkQueue'[k] = checkQueue[k + 1]
          /\ Len(checkQueue) \in Nat
      BY <2>1, TailElements DEF Parts, Numbers
    <3>. QED
      BY <3>1
  <2>. QED
    BY <2>1, <2>2 DEF Attempts
<1>6. CASE CheckResends
  BY <1>6, ResendCounts
<1>. QED
  BY <1>1, <1>2, <1>3, <1>4, <1>5, <1>6 DEF Next, Send, Transit, Check

(* Only the Checker removes B, for a task with more than MaxFailed failures.*)
LEMMA SurvivesNext ==
  ASSUME Parts, Attempts, SurvivesFewLosses, [Next]_vars
  PROVE  SurvivesFewLosses'
<1>1. /\ lostConfirms' = 0 => lostConfirms = 0
      /\ \A u \in Uids : wasted[u] \in Nat /\ wasted'[u] \in Nat /\ wasted'[u] >= wasted[u]
  <2>1. wasted' = wasted \/ \E u \in Uids : wasted' = [wasted EXCEPT ![u] = @ + 1]
    <3>1. CASE CheckResends
      <4>1. PICK t \in Tasks : t = Head(checkQueue)
        BY <3>1, TailElements DEF CheckResends, Parts, Numbers
      <4>2. PICK u \in Uids : u = Head(checkQueue).uid
        BY <4>1 DEF Tasks
      <4>. QED
        BY <3>1, <4>2 DEF CheckResends, Wasted
    <3>2. CASE ~CheckResends
      BY <3>2 DEF Next, Send, Transit, Check, vars, history, TakeMessage, SkipNode, SendMessage, SendFails,
         Accept, AcceptConfirmFails, Ignore, LoseData, Wasted, Forget, Confirm, LoseConfirm, DuplicateConfirm,
         CheckRemoves, CheckDone
    <3>. QED
      BY <3>1, <3>2
  <2>2. lostConfirms' = lostConfirms \/ lostConfirms' = lostConfirms + 1
    BY DEF Next, Send, Transit, Check, vars, history, TakeMessage, SkipNode, SendMessage, SendFails,
         Accept, AcceptConfirmFails, Ignore, LoseData, Wasted, Forget, Confirm, LoseConfirm, DuplicateConfirm,
         CheckRemoves, CheckResends, CheckDone
  <2>3. wasted \in [Uids -> Nat] /\ lostConfirms \in Nat
    BY DEF Parts, Numbers
  <2>4. wasted' \in [Uids -> Nat] /\ \A u \in Uids : wasted'[u] >= wasted[u]
    <3>1. CASE wasted' = wasted
      BY <2>3, <3>1
    <3>2. ASSUME NEW u \in Uids, wasted' = [wasted EXCEPT ![u] = @ + 1]
          PROVE  wasted' \in [Uids -> Nat] /\ \A v \in Uids : wasted'[v] >= wasted[v]
      BY <2>3, <3>2, CountGrows
    <3>. QED
      BY <2>1, <3>1, <3>2
  <2>5. lostConfirms' = 0 => lostConfirms = 0
    BY <2>2, <2>3
  <2>. QED
    BY <2>3, <2>4, <2>5
<1>2. CASE CheckRemoves
  <2>1. PICK t \in Tasks : t = checkQueue[1] /\ 1 \in DOMAIN checkQueue /\ t.numFailed > MaxFailed
    BY <1>2, TailElements DEF CheckRemoves, Parts, Numbers
  <2>2. PICK u \in Uids : u = t.uid /\ t.numFailed \in Nat /\ MaxFailed \in Nat
    BY LinkAssumption DEF Tasks, LinkAssumption
  <2>3. lostConfirms = 0 => t.numFailed <= wasted[u] + 1
    BY <2>1, <2>2 DEF Attempts, Tried
  <2>4. lostConfirms' = 0 => ~(wasted'[u] < MaxFailed)
    BY <1>1, <2>1, <2>2, <2>3
  <2>. QED
    BY <2>2, <2>4 DEF SurvivesFewLosses
<1>3. CASE ~CheckRemoves
  <2>1. linked' = linked
    BY <1>3 DEF Next, Send, Transit, Check, vars, senderVars, TakeMessage, SkipNode, SendMessage, SendFails,
         Accept, AcceptConfirmFails, Ignore, LoseData, Forget, Confirm, LoseConfirm, DuplicateConfirm,
         CheckResends, CheckDone
  <2>2. MaxFailed \in Nat
    BY LinkAssumption DEF LinkAssumption
  <2>3. ASSUME \A u \in Uids : wasted'[u] < MaxFailed PROVE \A u \in Uids : wasted[u] < MaxFailed
    BY <1>1, <2>2, <2>3
  <2>. QED
    BY <1>1, <2>1, <2>3, Zenon DEF SurvivesFewLosses
<1>. QED
  BY <1>2, <1>3

(* B stays a neighbour of A as long as no confirm is lost and fewer than    *)
(* MaxFailed attempts for any message were of no use, although the Checker  *)
(* compares the failures before it looks at the confirms.                   *)
THEOREM FewLossesAreSurvived == Spec => []SurvivesFewLosses
<1>1. Init => IInv /\ Attempts /\ SurvivesFewLosses
  <2>1. Init => checkQueue = <<>> /\ linked
    BY DEF Init
  <2>. QED
    BY <2>1, InitIInv DEF Attempts, SurvivesFewLosses
<1>2. IInv /\ Attempts /\ SurvivesFewLosses /\ [Next]_vars => (IInv /\ Attempts /\ SurvivesFewLosses)'
  <2>1. IInv => Parts
    BY IInvParts
  <2>. QED
    BY <2>1, StepIInv, AttemptsNext, SurvivesNext
<1>. QED
  BY <1>1, <1>2, PTL DEF Spec
===============================================================================
