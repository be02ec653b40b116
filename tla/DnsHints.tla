------------------------------- MODULE DnsHints -------------------------------
(***************************************************************************)
(* The name servers a query begins with (dns_hints_...): those of          *)
(* resolv.conf are put into a table of limited size with a priority each   *)
(* and are gone through by priority, and in a shuffled order among those   *)
(* of one priority.  A place in the table is counted from 1 here.          *)
(***************************************************************************)
EXTENDS Integers, Sequences

CONSTANTS ShuffleOf(_, _),  \* dns_k_shuffle16() of a place, with a seed (DnsPermutor)
          Seeds,            \* what dns_random() may return
          Slots             \* lengthof(soa->addrs): 16

ASSUME HintsAssumption ==
  /\ Slots \in Nat \ {0} /\ Seeds # {}
  /\ \A seed \in Seeds, a, b \in 0..(Slots - 1) :
       ShuffleOf(a, seed) \in Nat /\ (ShuffleOf(a, seed) = ShuffleOf(b, seed) => a = b)

(* dns_hints_insert(): when the table is full the count stays as it is, so  *)
(* that the first place is overwritten from then on.                        *)
Insert(soa, addr, priority) ==
  LET entry == [addr |-> addr, priority |-> IF priority < 1 THEN 1 ELSE priority]
  IN  IF Len(soa) < Slots THEN Append(soa, entry) ELSE [soa EXCEPT ![1] = entry]

(* dns_hints_insert_resconf()                                               *)
InsertResconf(nameservers, rotate) ==
  LET soa[k \in 0..Len(nameservers)] ==
        IF k = 0 THEN <<>>
        ELSE Insert(soa[k - 1], nameservers[k], IF rotate THEN 1 ELSE k)
  IN  soa[Len(nameservers)]

(* dns_hints_i_cmp(), and the place that dns_hints_i_start() and            *)
(* dns_hints_i_skip() find by it.                                           *)
Cmp(a, b, seed, soa) ==
  IF soa[a].priority # soa[b].priority THEN soa[a].priority - soa[b].priority
  ELSE ShuffleOf(a - 1, seed) - ShuffleOf(b - 1, seed)

Least(S, seed, soa) ==
  CHOOSE p \in S : \A o \in S : \/ Cmp(p, o, seed, soa) < 0
                                \/ Cmp(p, o, seed, soa) = 0 /\ p <= o

Start(seed, soa) == IF soa = <<>> THEN 1 ELSE Least(DOMAIN soa, seed, soa)

Skip(p0, seed, soa) ==
  LET after == {p \in DOMAIN soa : Cmp(p, p0, seed, soa) > 0}
  IN  IF after = {} THEN Len(soa) + 1 ELSE Least(after, seed, soa)

(* The addresses dns_hints_grep() gives one after the other until there are *)
(* none; never more than there are places, or the iteration goes round.     *)
Grep(seed, soa) ==
  LET next[k \in 1..(Len(soa) + 1)] ==
        IF k = 1 THEN Start(seed, soa)
        ELSE IF next[k - 1] > Len(soa) THEN next[k - 1] ELSE Skip(next[k - 1], seed, soa)
      found == {k \in 1..(Len(soa) + 1) : next[k] \in DOMAIN soa}
  IN  [k \in found |-> soa[next[k]].addr]
==============================================================================
