------------------------------ MODULE MCDnsSocket ------------------------------
EXTENDS DnsSocket, DnsPermutor

CONSTANTS h1, h2, q1, q2

MCHosts == {h1, h2}
MCQuestions == {q1, q2}

(* Halves of one bit, so that every round function can be tried.            *)
MCXor(a, b) == (a + b) % 2

(* What DnsSocket takes for granted of its ids, for every round function:   *)
(* none is outside of the range and each comes once; D undoes E.            *)
ASSUME IdsAssumption ==
  \A f \in RoundFunctions :
    /\ Len(Ids(f)) = Length
    /\ {Ids(f)[k] : k \in 1..Length} = (Limit + 1 - Length)..Limit
    /\ \A n \in 0..(Half * Half - 1) : D(f, E(f, n)) = n
==============================================================================
