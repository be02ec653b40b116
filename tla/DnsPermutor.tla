------------------------------ MODULE DnsPermutor ------------------------------
(***************************************************************************)
(* The two permutations of the resolver.  dns_k_permutor_... numbers the   *)
(* queries: a Feistel cipher over all pairs of halves whose round function *)
(* (TEA under a random key) is any function f here, cut down to a range by *)
(* leaving out what falls outside.  dns_k_shuffle16() orders name servers  *)
(* and records: four rounds over two halves, with a box that permutes the  *)
(* values of a half.                                                       *)
(***************************************************************************)
EXTENDS Naturals, Sequences

CONSTANTS Xor(_, _),  \* bitwise, on 0..(Half - 1)
          Half,       \* values of half a block: p->mask + 1, 256 in the code
          Length,     \* p->length: 65535 for query ids
          Limit,      \* p->limit: 65535 for query ids
          Rounds      \* 8

Halves == 0..(Half - 1)

ASSUME PermutorAssumption ==
  /\ Half \in Nat \ {0} /\ Rounds \in Nat \ {0}
  /\ Length \in 1..(Half * Half) /\ Limit \in Nat /\ Limit + 1 >= Length
  /\ \A a, b \in Halves : Xor(a, b) \in Halves /\ Xor(Xor(a, b), b) = a

RoundFunctions == [(0..(Rounds - 2)) \X Halves -> Halves]

Split(n) == <<(n \div Half) % Half, n % Half>>
Join(h) == h[1] * Half + h[2]

(* One turn of the loops of dns_k_permutor_E() and dns_k_permutor_D().      *)
Round(f, k, h) == <<h[2], Xor(h[1], f[<<k, h[2]>>])>>
Unround(f, k, h) == <<Xor(h[2], f[<<k, h[1]>>]), h[1]>>

E(f, n) ==
  LET h[k \in 0..(Rounds - 1)] == IF k = 0 THEN Split(n) ELSE Round(f, k - 1, h[k - 1])
  IN  Join(h[Rounds - 1])

D(f, n) ==
  LET h[k \in 0..(Rounds - 1)] ==
        IF k = Rounds - 1 THEN Split(n) ELSE Unround(f, k, h[k + 1])
  IN  Join(h[0])

(* dns_k_permutor_step(): the ids given out while stepi, which the halves   *)
(* take modulo Half * Half, goes once through all its values.               *)
Ids(f) ==
  LET Id(n) == n + (Limit + 1 - Length)
      all == [stepi \in 1..(Half * Half) |-> E(f, stepi - 1)]
      within == SelectSeq(all, LAMBDA n : n < Length)
  IN  [k \in DOMAIN within |-> Id(within[k])]

(* One turn of the loop of dns_k_shuffle16() with a byte of the seed.       *)
Mix(box, s, h) ==
  LET a == Xor(box[Xor(h[1], s)], h[2])
  IN  <<a, Xor(box[h[2]], a)>>

Shuffle(box, seed, n) ==
  LET h[k \in 0..Len(seed)] ==
        IF k = 0 THEN <<n % Half, n \div Half>> ELSE Mix(box, seed[k], h[k - 1])
  IN  Join(h[Len(seed)])
==============================================================================
