------------------------------- MODULE DnsQuery -------------------------------
(***************************************************************************)
(* What a DNS socket promises to the resolver, whatever it does with UDP   *)
(* and TCP: a question is put to hosts, and the outcome is an answer to    *)
(* this very question, given by a host to which it has been put, or an     *)
(* error.  A new question takes the place of the one before.               *)
(***************************************************************************)
CONSTANTS Questions, Hosts, Nothing

VARIABLES question,  \* the question that is open, or was last
          answers,   \* its answer, [q, host], if there is one
          failed,    \* whether it has ended in an error
          put        \* the hosts each question has been put to

vars == <<question, answers, failed, put>>

Init ==
  /\ question = Nothing
  /\ answers = {}
  /\ failed = FALSE
  /\ put = [q \in Questions |-> {}]

Ask(q) ==
  /\ question' = q
  /\ answers' = {} /\ failed' = FALSE
  /\ UNCHANGED put

Open == question # Nothing /\ answers = {} /\ ~failed

(* The question is put anew: answers to the old one count no longer.       *)
Renew(q) ==
  /\ q # question \/ ~Open
  /\ put' = [put EXCEPT ![q] = {}]
  /\ UNCHANGED <<question, answers, failed>>

Put(h) ==
  /\ Open
  /\ put' = [put EXCEPT ![question] = @ \cup {h}]
  /\ UNCHANGED <<question, answers, failed>>

Answer(h) ==
  /\ Open /\ h \in put[question]
  /\ answers' = {[q |-> question, host |-> h]}
  /\ UNCHANGED <<question, failed, put>>

Fail ==
  /\ Open
  /\ failed' = TRUE
  /\ UNCHANGED <<question, answers, put>>

Next ==
  \/ \E q \in Questions : Ask(q) \/ Renew(q)
  \/ \E h \in Hosts : Put(h) \/ Answer(h)
  \/ Fail

Spec == Init /\ [][Next]_vars
==============================================================================
