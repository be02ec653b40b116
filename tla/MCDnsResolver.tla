----------------------------- MODULE MCDnsResolver -----------------------------
EXTENDS DnsResolver, Bitwise

Stub ==
  [lookup |-> <<"FILE", "BIND">>, search |-> 1, ndots |-> 1, attempts |-> 2,
   nameservers |-> <<1, 2>>, recurse |-> FALSE, smart |-> FALSE, edns0 |-> FALSE,
   rotate |-> FALSE, cache |-> FALSE]

(* A stub resolver with a search list; one that takes its servers in any    *)
(* order and uses EDNS0; one that has only a server it never asks; one with *)
(* a cache that asks for mail servers; and one that goes from the root to   *)
(* the name.                                                                *)
MCConfs ==
  {Stub,
   [Stub EXCEPT !.search = 0, !.attempts = 1, !.rotate = TRUE, !.edns0 = TRUE],
   [Stub EXCEPT !.search = 0, !.nameservers = <<31>>],
   [Stub EXCEPT !.lookup = <<"CACHE", "BIND", "FILE">>, !.ndots = 0, !.attempts = 1,
                !.nameservers = <<31, 1>>, !.smart = TRUE, !.cache = TRUE],
   [Stub EXCEPT !.lookup = <<"BIND">>, !.search = 0, !.attempts = 1, !.nameservers = <<1>>,
                !.recurse = TRUE]}

MCQuestions == {[anchored |-> a, dots |-> 0, type |-> "A"] : a \in BOOLEAN}
               \cup {[anchored |-> FALSE, dots |-> 0, type |-> "MX"]}

MCOthers == {11, 12}
MCReferrals == {[ns |-> {11, 12}, ar |-> <<[host |-> 11, addr |-> 31], [host |-> 12, addr |-> 12]>>]}

(* dns_k_shuffle16() over halves of three bits, with a box as fixed as the  *)
(* code's, and a seed of four equal parts.                                  *)
Permutor == INSTANCE DnsPermutor WITH Xor <- ^^, Half <- 8, Length <- 64, Limit <- 64, Rounds <- 8
Box == [h \in 0..7 |-> (5 * h + 3) % 8]
Shuffled == [n \in 0..Rank, seed \in 0..2 |-> Permutor!Shuffle(Box, [k \in 1..4 |-> seed], n)]
MCShuffleOf(n, seed) == Shuffled[n, seed]
==============================================================================
