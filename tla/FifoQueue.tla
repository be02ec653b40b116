------------------------------ MODULE FifoQueue ------------------------------
(***************************************************************************)
(* What a Storage promises the threads that share it: a FIFO queue that    *)
(* can be closed.  While it is open, what is put is taken in that order;   *)
(* once it is closed nothing is taken any more and every user is sent      *)
(* away.  Storage.tla implements it.                                       *)
(***************************************************************************)
EXTENDS Sequences

CONSTANTS Users, Objects

VARIABLES queue,   \* objects put and not yet taken
          closed,  \* TRUE once the queue was closed
          left     \* users that were told the queue is closed

qvars == <<queue, closed, left>>

Init == queue = <<>> /\ closed = FALSE /\ left = {}

Add ==
  /\ \E x \in Objects : queue' = Append(queue, x)
  /\ UNCHANGED <<closed, left>>

Take ==
  /\ ~closed
  /\ queue # <<>>
  /\ queue' = Tail(queue)
  /\ UNCHANGED <<closed, left>>

Close ==
  /\ ~closed
  /\ closed' = TRUE
  /\ UNCHANGED <<queue, left>>

Leave(u) ==
  /\ closed
  /\ u \in Users \ left
  /\ left' = left \cup {u}
  /\ UNCHANGED <<queue, closed>>

Next == Add \/ Take \/ Close \/ \E u \in Users : Leave(u)

(* An object at the head of an open queue is taken, and a closed queue      *)
(* sends every user away.                                                   *)
Fairness == WF_qvars(Take) /\ \A u \in Users : WF_qvars(Leave(u))

Spec == Init /\ [][Next]_qvars

FairSpec == Spec /\ Fairness
=============================================================================
